---- MODULE Spec2Model ----
(***************************************************************************)
(* ZFlap simulation core: the finite-automaton transition table, the       *)
(* breadth-first reachability search (validarCadena / esAceptada), the two *)
(* string generators, and the depth-first PDA and TM searches.             *)
(*                                                                         *)
(* A string is a sequence of symbols; a state is an opaque identifier.     *)
(***************************************************************************)
EXTENDS Integers, Sequences, FiniteSets, TLC

VARIABLES
    \* ---- finite automaton: inputs of one validarCadena / esAceptada call
    delta,              \* Transition::delta, (state, symbol) -> destinations
    estadoInicial,      \* the initial state handed to the call
    finales,            \* esAceptada's estadosFinales (the accepting states)
    cadena,             \* the input string
    \* ---- validarCadena's locals
    cola,               \* queue<EstadoExploracion>
    visitados,          \* set<EstadoExploracion>
    estadosAlcanzados,  \* the set validarCadena builds and returns
    pcFA,               \* "off" | "bfs" | "vuelto" (validarCadena returned) | "hecho"
    aceptada,           \* esAceptada's return value (meaningful when pcFA = "hecho")
    resultados,         \* history: one record for each esAceptada call made
    encoladas,          \* history: every cola.push of the validarCadena call, in order
    \* ---- calls on a Transition object (the table itself is delta)
    historial,          \* history: the addTransition calls made since the last clear
    consulta,           \* the getNextStates call just made, or SinConsulta
    \* ---- string generators
    alfabeto,           \* vector<char>
    longitudMaxima,     \* int
    limiteCiclos,       \* int
    variante,           \* "off" | "todas" (generarCadenasAceptadas) | "limite"
    colaGen,            \* the generator's frontier queue
    cadenasAceptadas,   \* the generator's output vector
    pcGen,              \* "off" | "bucle" | "hecho"
    \* ---- PDA / TM depth-first search
    maquina,            \* the machine: kind, transitions, finalStates, initialState
    input,              \* the input string of accepts
    maxSteps,           \* the budget handed to accepts
    stepsRemaining,     \* the shared int& counter
    frames,             \* the call stack of dfs_find / simulate invocations
    pathSoFar,          \* the shared path vector
    resultPath,         \* the shared result vector
    outPath,            \* the caller's *outPath
    ret,                \* "none" | "true" | "false": value the last invocation returned
    found,              \* accepts' local: the value of the outermost invocation
    pcS,                \* "off" | "run" | "done" (accepts has returned found)
    examinadas,         \* history: invocations that got past the budget test
    entradas,           \* history: pathSoFar at the entry of each open invocation
    devuelta,           \* history: pathSoFar at the entry of the invocation that
                        \* returned last
    pasoPedido,         \* the last getStepFromPath call: its arguments and result
    \* ---- AutomatonEditor: the scene, the table and the stepwise validation
    escena,             \* the TransitionItems of the scene, in creation order
    estadosEditor,      \* the StateItems: name -> isFinal
    initialState,       \* the name of the initial StateItem
    chainInput,         \* the text of the chain field
    transitionHandler,  \* the editor's Transition object
    selectedTransitionItem, \* index in escena of the selected item, 0 for nullptr
    ediciones,          \* history: onUpdateTransitionSymbol calls that changed something
    validationChain,    \* QString validationChain
    validationStep,     \* int validationStep
    currentValidationStates, \* vector<StateItem*>, the highlighted states
    timerActivo,        \* validationTimer->isActive()
    playEnabled,        \* playButton->isEnabled()
    nextStepEnabled,    \* nextStepButton->isEnabled()
    validationStatus,   \* the text of validationStatusLabel
    corrida,            \* history: "ninguna" | "en curso" | "veredicto"
    tablaAlPlay,        \* history: the table onPlayValidation left for the run
    edicionesAlPlay     \* history: the value of ediciones when the run was started

faVars == <<delta, estadoInicial, finales, cadena, cola, visitados,
            estadosAlcanzados, pcFA, aceptada, resultados, encoladas>>
tablaVars == <<historial, consulta>>
genVars == <<alfabeto, longitudMaxima, limiteCiclos, variante, colaGen,
             cadenasAceptadas, pcGen>>
searchVars == <<maquina, input, maxSteps, stepsRemaining, frames, pathSoFar,
                resultPath, outPath, ret, found, pcS, examinadas, entradas,
                devuelta, pasoPedido>>
editorVars == <<escena, estadosEditor, initialState, chainInput, transitionHandler,
                selectedTransitionItem, ediciones, validationChain, validationStep,
                currentValidationStates, timerActivo, playEnabled, nextStepEnabled,
                validationStatus, corrida, tablaAlPlay, edicionesAlPlay>>
vars == <<faVars, tablaVars, genVars, searchVars, editorVars>>

----------------------------------------------------------------------------
(* Bounds of the model *)

\* addTransition calls that build the table of a validarCadena run
MaxTrans == 2
\* addTransition calls that build the table of a generator run
MaxTransGen == 3
\* length of the input string of validarCadena
MaxLen == 2
\* longitudMaxima of the generators
MaxLongitud == 3
\* limiteCiclos of the cycle-limited generator
MaxLimite == 3
\* addTransition calls that build a PDA or a TM
MaxMaquinaTrans == 2
\* length of the input of PDA::accepts / TM::accepts
MaxInput == 2
\* maxSteps handed to accepts
MaxBudget == 4
\* successive esAceptada calls with the same arguments
MaxLlamadas == 2
\* addTransition and clear calls made on a Transition object
MaxHistorial == 3
\* TransitionItems in the editor's scene
MaxItems == 2
\* onUpdateTransitionSymbol calls that change a label
MaxEdiciones == 2
\* length of the chain typed in the editor's chain field
MaxChain == 2
\* length of the strings a generator is followed up to: a run that takes a
\* longer string from its queue is not followed further
MaxCadena == 3
\* the negative maxLength values handed to the generators are -MaxNegativa..-1
MaxNegativa == 2
\* the negative maxSteps values handed to accepts are -MaxSinBudget..-1
MaxSinBudget == 1
\* largest index handed to getStepFromPath
MaxIndice == 4

Estados == {"q0", "q1", "q2"}
GenEstados == {"q0", "q1"}
Simbolos == {"a", "b"}
\* the alphabets handed to the generators: distinct symbols, as the editor's
\* std::set<char> gives them
Alfabetos == {<<"a", "b">>, <<"a">>}

Rango(s) == {s[i] : i \in DOMAIN s}

\* all strings over S of length at most n
RECURSIVE Cadenas(_, _)
Cadenas(S, n) ==
    IF n = 0 THEN {<<>>}
    ELSE LET prev == Cadenas(S, n - 1)
         IN  prev \cup {Append(w, s) : w \in {x \in prev : Len(x) = n - 1}, s \in S}

----------------------------------------------------------------------------
(* Transition table *)

TablaVacia == <<>>

\* addTransition replacing the destination list of the key
addTransitionSobrescribe(d, from, symbol, to) ==
    [x \in (DOMAIN d) \cup {<<from, symbol>>} |->
        IF x = <<from, symbol>> THEN <<to>> ELSE d[x]]

\* delta[{from, symbol}].push_back(to)
addTransition(d, from, symbol, to) ==
    LET k == <<from, symbol>>
    IN  IF k \in DOMAIN d
        THEN [d EXCEPT ![k] = Append(@, to)]
        ELSE [x \in (DOMAIN d) \cup {k} |-> IF x = k THEN <<to>> ELSE d[x]]

\* a lookup that answers a missing key with the source state itself
getNextStatesQuieto(d, from, symbol) ==
    IF <<from, symbol>> \in DOMAIN d THEN d[<<from, symbol>>] ELSE <<from>>

\* find the key; the stored vector, or an empty one
getNextStates(d, from, symbol) ==
    IF <<from, symbol>> \in DOMAIN d THEN d[<<from, symbol>>] ELSE <<>>

\* delta.clear()
clear(d) == TablaVacia

\* a lookup through operator[], which creates the entry of a missing key
tablaTrasConsultaInserta(d, from, symbol) ==
    IF <<from, symbol>> \in DOMAIN d THEN d
    ELSE [x \in (DOMAIN d) \cup {<<from, symbol>>} |->
             IF x = <<from, symbol>> THEN <<>> ELSE d[x]]

\* the table after getNextStates: a const member that searches with find and
\* copies the vector out
tablaTrasConsulta(d, from, symbol) == d

\* the tables that at most n addTransition calls build over states Q and
\* symbols S (the editor adds a transition only on a symbol of the alphabet)
RECURSIVE Tablas(_, _, _)
Tablas(Q, S, n) ==
    IF n = 0 THEN {TablaVacia}
    ELSE LET prev == Tablas(Q, S, n - 1)
         IN  prev \cup {addTransition(d, f, s, to) :
                          d \in prev, f \in Q, s \in S, to \in Q}

----------------------------------------------------------------------------
(* validarCadena *)

EstadoExploracion(e, p) == [estado |-> e, posicion |-> p]

\* the state of the search right before the while loop
validarInicio(q0) ==
    [cola |-> <<EstadoExploracion(q0, 0)>>,
     visitados |-> {EstadoExploracion(q0, 0)},
     estadosFinales |-> {}]

\* explorar with the visited set keyed by the state alone, the position ignored
RECURSIVE explorarSinPosicion(_, _, _)
explorarSinPosicion(siguientes, pos, st) ==
    IF siguientes = <<>> THEN st
    ELSE LET nuevoEstado == EstadoExploracion(Head(siguientes), pos + 1)
         IN  IF \A v \in st.visitados : v.estado # nuevoEstado.estado
             THEN explorarSinPosicion(Tail(siguientes), pos,
                           [st EXCEPT !.visitados = @ \cup {nuevoEstado},
                                      !.cola = Append(@, nuevoEstado)])
             ELSE explorarSinPosicion(Tail(siguientes), pos, st)

\* explorar without the test of the visited set
RECURSIVE explorarSinVisitados(_, _, _)
explorarSinVisitados(siguientes, pos, st) ==
    IF siguientes = <<>> THEN st
    ELSE LET nuevoEstado == EstadoExploracion(Head(siguientes), pos + 1)
         IN  explorarSinVisitados(Tail(siguientes), pos,
                           [st EXCEPT !.visitados = @ \cup {nuevoEstado},
                                      !.cola = Append(@, nuevoEstado)])

\* explorar following the first destination only
explorarSoloPrimero(siguientes, pos, st) ==
    IF siguientes = <<>> THEN st
    ELSE LET nuevoEstado == EstadoExploracion(Head(siguientes), pos + 1)
         IN  IF nuevoEstado \notin st.visitados
             THEN [st EXCEPT !.visitados = @ \cup {nuevoEstado},
                             !.cola = Append(@, nuevoEstado)]
             ELSE st

\* the for loop over siguientes: enqueue what was not visited at that position
RECURSIVE explorar(_, _, _)
explorar(siguientes, pos, st) ==
    IF siguientes = <<>> THEN st
    ELSE LET nuevoEstado == EstadoExploracion(Head(siguientes), pos + 1)
         IN  IF nuevoEstado \notin st.visitados
             THEN explorar(Tail(siguientes), pos,
                           [st EXCEPT !.visitados = @ \cup {nuevoEstado},
                                      !.cola = Append(@, nuevoEstado)])
             ELSE explorar(Tail(siguientes), pos, st)

\* the iteration recording a state only after at least one hop
validarPasoSoloTrasSalto(d, w, st) ==
    LET actual == Head(st.cola)
        st1 == [st EXCEPT !.cola = Tail(@)]
    IN  IF actual.posicion = Len(w)
        THEN IF actual.posicion = 0 THEN st1
             ELSE [st1 EXCEPT !.estadosFinales = @ \cup {actual.estado}]
        ELSE explorar(getNextStates(d, actual.estado, w[actual.posicion + 1]),
                      actual.posicion, st1)

\* one iteration of the while loop
validarPaso(d, w, st) ==
    LET actual == Head(st.cola)
        st1 == [st EXCEPT !.cola = Tail(@)]
    IN  IF actual.posicion = Len(w)
        THEN [st1 EXCEPT !.estadosFinales = @ \cup {actual.estado}]
        ELSE explorar(getNextStates(d, actual.estado, w[actual.posicion + 1]),
                      actual.posicion, st1)

RECURSIVE validarBucle(_, _, _)
validarBucle(d, w, st) ==
    IF st.cola = <<>> THEN st.estadosFinales
    ELSE validarBucle(d, w, validarPaso(d, w, st))

validarCadena(d, q0, w) == validarBucle(d, w, validarInicio(q0))

\* esAceptada demanding that every reached state be final
esAceptadaTodos(alcanzados, F) == alcanzados # {} /\ \A estado \in alcanzados : estado \in F

\* the loop over the reached states, returning true at the first final one
esAceptadaBucle(alcanzados, F) == \E estado \in alcanzados : estado \in F

esAceptada(d, q0, F, w) == esAceptadaBucle(validarCadena(d, q0, w), F)

----------------------------------------------------------------------------
(* The finite-automaton run: one esAceptada call, validarCadena stepwise *)

faOff ==
    /\ delta = TablaVacia /\ estadoInicial = "q0" /\ finales = {} /\ cadena = <<>>
    /\ cola = <<>> /\ visitados = {} /\ estadosAlcanzados = {}
    /\ pcFA = "off" /\ aceptada = FALSE /\ resultados = <<>>
    /\ encoladas = <<>>

\* no getNextStates call has just been made
SinConsulta == [op |-> "ninguna"]

tablaOff == historial = <<>> /\ consulta = SinConsulta

editorOff ==
    /\ escena = <<>> /\ estadosEditor = <<>> /\ initialState = "q0"
    /\ chainInput = <<>> /\ transitionHandler = TablaVacia
    /\ selectedTransitionItem = 0 /\ ediciones = 0
    /\ validationChain = <<>> /\ validationStep = 0
    /\ currentValidationStates = <<>> /\ timerActivo = FALSE
    /\ playEnabled = FALSE /\ nextStepEnabled = FALSE
    /\ validationStatus = "off" /\ corrida = "ninguna" /\ tablaAlPlay = TablaVacia
    /\ edicionesAlPlay = 0

genOff ==
    /\ alfabeto = <<>> /\ longitudMaxima = 0 /\ limiteCiclos = 0
    /\ variante = "off" /\ colaGen = <<>> /\ cadenasAceptadas = <<>>
    /\ pcGen = "off"

searchOff ==
    /\ maquina = [kind |-> "off"] /\ input = <<>> /\ maxSteps = 0
    /\ stepsRemaining = 0 /\ frames = <<>> /\ pathSoFar = <<>>
    /\ resultPath = <<>> /\ outPath = <<>> /\ ret = "none" /\ found = FALSE
    /\ pcS = "off" /\ examinadas = 0 /\ entradas = <<>> /\ devuelta = <<>>
    /\ pasoPedido = SinConsulta

\* the history record of a cola.push: the configuration pushed and the one that
\* was being expanded
Encolada(config, desde) == [config |-> config, desde |-> desde]

\* the origin recorded for the push made before the loop
SinOrigen == EstadoExploracion("ninguno", -1)

\* the history record of a call entered with table d, not yet returned
LlamadaEsAceptada(d) ==
    [antes |-> d, vuelta |-> FALSE, resultado |-> FALSE, despues |-> d]

InitFA ==
    /\ delta \in Tablas(Estados, Simbolos, MaxTrans)
    /\ estadoInicial \in Estados
    /\ finales \in SUBSET Estados
    /\ cadena \in Cadenas(Simbolos, MaxLen)
    /\ cola = validarInicio(estadoInicial).cola
    /\ visitados = validarInicio(estadoInicial).visitados
    /\ estadosAlcanzados = {}
    /\ pcFA = "bfs"
    /\ aceptada = FALSE
    /\ resultados = <<LlamadaEsAceptada(delta)>>
    /\ encoladas = <<Encolada(Head(cola), SinOrigen)>>
    /\ tablaOff /\ genOff /\ searchOff /\ editorOff

\* one iteration of validarCadena's while loop
validarCadena_iter ==
    /\ pcFA = "bfs"
    /\ cola # <<>>
    /\ LET st == validarPaso(delta, cadena,
                             [cola |-> cola, visitados |-> visitados,
                              estadosFinales |-> estadosAlcanzados])
       IN  /\ cola' = st.cola
           /\ visitados' = st.visitados
           /\ estadosAlcanzados' = st.estadosFinales
    /\ delta' = IF Head(cola).posicion = Len(cadena) THEN delta
                ELSE tablaTrasConsulta(delta, Head(cola).estado,
                                       cadena[Head(cola).posicion + 1])
    /\ encoladas' = encoladas \o
                       [i \in 1..(Len(cola') - Len(cola) + 1) |->
                           Encolada(cola'[Len(cola) - 1 + i], Head(cola))]
    /\ UNCHANGED <<estadoInicial, finales, cadena, pcFA, aceptada, resultados>>
    /\ UNCHANGED <<tablaVars, genVars, searchVars, editorVars>>

\* the queue is empty: validarCadena returns its set to esAceptada
validarCadena_return ==
    /\ pcFA = "bfs"
    /\ cola = <<>>
    /\ pcFA' = "vuelto"
    /\ UNCHANGED <<delta, estadoInicial, finales, cadena, cola, visitados,
                   estadosAlcanzados, aceptada, resultados, encoladas>>
    /\ UNCHANGED <<tablaVars, genVars, searchVars, editorVars>>

\* esAceptada scans the returned set and returns
esAceptada_return ==
    /\ pcFA = "vuelto"
    /\ aceptada' = esAceptadaBucle(estadosAlcanzados, finales)
    /\ resultados' = [resultados EXCEPT ![Len(resultados)] =
                         [@ EXCEPT !.vuelta = TRUE, !.resultado = aceptada',
                                   !.despues = delta]]
    /\ pcFA' = "hecho"
    /\ UNCHANGED <<delta, estadoInicial, finales, cadena, cola, visitados,
                   estadosAlcanzados, encoladas>>
    /\ UNCHANGED <<tablaVars, genVars, searchVars, editorVars>>

\* a further call that finds the visited set of the call before it
esAceptada_otraSinLimpiar ==
    /\ pcFA = "hecho"
    /\ Len(resultados) < MaxLlamadas
    /\ cola' = validarInicio(estadoInicial).cola
    /\ visitados' = visitados \cup validarInicio(estadoInicial).visitados
    /\ estadosAlcanzados' = validarInicio(estadoInicial).estadosFinales
    /\ pcFA' = "bfs"
    /\ resultados' = Append(resultados, LlamadaEsAceptada(delta))
    /\ encoladas' = <<Encolada(Head(cola'), SinOrigen)>>
    /\ UNCHANGED <<delta, estadoInicial, finales, cadena, aceptada>>
    /\ UNCHANGED <<tablaVars, genVars, searchVars, editorVars>>

\* the caller calls esAceptada again with the same table, initial state, final
\* states and string: validarCadena starts over with fresh locals
esAceptada_otra ==
    /\ pcFA = "hecho"
    /\ Len(resultados) < MaxLlamadas
    /\ cola' = validarInicio(estadoInicial).cola
    /\ visitados' = validarInicio(estadoInicial).visitados
    /\ estadosAlcanzados' = validarInicio(estadoInicial).estadosFinales
    /\ pcFA' = "bfs"
    /\ resultados' = Append(resultados, LlamadaEsAceptada(delta))
    /\ encoladas' = <<Encolada(Head(cola'), SinOrigen)>>
    /\ UNCHANGED <<delta, estadoInicial, finales, cadena, aceptada>>
    /\ UNCHANGED <<tablaVars, genVars, searchVars, editorVars>>

NextFA ==
    validarCadena_iter \/ validarCadena_return \/ esAceptada_return \/ esAceptada_otra

SpecFA == InitFA /\ [][NextFA]_vars

\* the call runs on: a loop iteration or a return that can be made is made
SpecFAJusto == SpecFA /\ WF_vars(NextFA)

----------------------------------------------------------------------------
(* A Transition object under its callers: addTransition, clear and            *)
(* getNextStates calls in any order.  historial records the mutating calls.   *)

LlamadaAdd(from, symbol, to) ==
    [op |-> "add", from |-> from, symbol |-> symbol, to |-> to]
LlamadaClear == [op |-> "clear"]

InitTabla == faOff /\ tablaOff /\ genOff /\ searchOff /\ editorOff

Transition_addTransition ==
    /\ pcFA = "off" /\ Len(historial) < MaxHistorial
    /\ \E from \in Estados, symbol \in Simbolos, to \in Estados :
          /\ delta' = addTransition(delta, from, symbol, to)
          /\ historial' = Append(historial, LlamadaAdd(from, symbol, to))
    /\ consulta' = SinConsulta
    /\ UNCHANGED <<estadoInicial, finales, cadena, cola, visitados,
                   estadosAlcanzados, pcFA, aceptada, resultados, encoladas>>
    /\ UNCHANGED <<genVars, searchVars, editorVars>>

Transition_clear ==
    /\ pcFA = "off" /\ Len(historial) < MaxHistorial
    /\ delta' = clear(delta)
    /\ historial' = Append(historial, LlamadaClear)
    /\ consulta' = SinConsulta
    /\ UNCHANGED <<estadoInicial, finales, cadena, cola, visitados,
                   estadosAlcanzados, pcFA, aceptada, resultados, encoladas>>
    /\ UNCHANGED <<genVars, searchVars, editorVars>>

Transition_getNextStates ==
    /\ pcFA = "off"
    /\ \E from \in Estados, symbol \in Simbolos :
          /\ consulta' = [op |-> "get", from |-> from, symbol |-> symbol,
                         devuelto |-> getNextStates(delta, from, symbol),
                         antes |-> delta]
          /\ delta' = tablaTrasConsulta(delta, from, symbol)
    /\ UNCHANGED <<estadoInicial, finales, cadena, cola, visitados,
                   estadosAlcanzados, pcFA, aceptada, resultados, encoladas,
                   historial>>
    /\ UNCHANGED <<genVars, searchVars, editorVars>>

NextTabla == Transition_addTransition \/ Transition_clear \/ Transition_getNextStates

SpecTabla == InitTabla /\ [][NextTabla]_vars

----------------------------------------------------------------------------
(* String generators *)

\* string::size() compared with an int bound: the int is converted to size_t,
\* so a negative bound becomes a value above every string length
sizeMenor(len, n) == n < 0 \/ len < n
\* the test that lets a string of exactly the bound's length be expanded
sizeMayorEstricto(len, n) == n >= 0 /\ len > n
sizeMayorIgual(len, n) == n >= 0 /\ len >= n

\* the output vector with "" pushed whatever the initial state is
genInicioSiempre(q0, F) == <<(<<>>)>>

\* the output vector before the loop: "" when the initial state is final
genInicio(q0, F) == IF q0 \in F THEN <<(<<>>)>> ELSE <<>>

\* todasDestinos recording the string of every destination, final or not
RECURSIVE todasDestinosGuardaTodo(_, _, _, _, _)
todasDestinosGuardaTodo(siguientes, nuevaCadena, F, L, st) ==
    IF siguientes = <<>> THEN st
    ELSE LET siguienteEstado == Head(siguientes)
             st1 == [st EXCEPT !.salida = Append(@, nuevaCadena)]
             st2 == IF sizeMenor(Len(nuevaCadena), L)
                    THEN [st1 EXCEPT !.cola = Append(@, <<siguienteEstado, nuevaCadena>>)]
                    ELSE st1
         IN  todasDestinosGuardaTodo(Tail(siguientes), nuevaCadena, F, L, st2)

\* todasDestinos that stops expanding one symbol too early
RECURSIVE todasDestinosCorto(_, _, _, _, _)
todasDestinosCorto(siguientes, nuevaCadena, F, L, st) ==
    IF siguientes = <<>> THEN st
    ELSE LET siguienteEstado == Head(siguientes)
             st1 == IF siguienteEstado \in F
                    THEN [st EXCEPT !.salida = Append(@, nuevaCadena)]
                    ELSE st
             st2 == IF sizeMenor(Len(nuevaCadena) + 1, L)
                    THEN [st1 EXCEPT !.cola = Append(@, <<siguienteEstado, nuevaCadena>>)]
                    ELSE st1
         IN  todasDestinosCorto(Tail(siguientes), nuevaCadena, F, L, st2)

\* generarCadenasAceptadas: the inner for loop over siguientes
RECURSIVE todasDestinos(_, _, _, _, _)
todasDestinos(siguientes, nuevaCadena, F, L, st) ==
    IF siguientes = <<>> THEN st
    ELSE LET siguienteEstado == Head(siguientes)
             st1 == IF siguienteEstado \in F
                    THEN [st EXCEPT !.salida = Append(@, nuevaCadena)]
                    ELSE st
             st2 == IF sizeMenor(Len(nuevaCadena), L)
                    THEN [st1 EXCEPT !.cola = Append(@, <<siguienteEstado, nuevaCadena>>)]
                    ELSE st1
         IN  todasDestinos(Tail(siguientes), nuevaCadena, F, L, st2)

\* generarCadenasAceptadas: the for loop over the alphabet
RECURSIVE todasSimbolos(_, _, _, _, _, _)
todasSimbolos(alf, d, actual, F, L, st) ==
    IF alf = <<>> THEN st
    ELSE todasSimbolos(Tail(alf), d, actual, F, L,
            todasDestinos(getNextStates(d, actual[1], Head(alf)),
                          Append(actual[2], Head(alf)), F, L, st))

\* generarCadenasAceptadas: one iteration of the while loop
todasPaso(d, F, alf, L, st) ==
    LET actual == Head(st.cola)
        st1 == [st EXCEPT !.cola = Tail(@)]
    IN  IF sizeMayorIgual(Len(actual[2]), L) THEN st1
        ELSE todasSimbolos(alf, d, actual, F, L, st1)

RECURSIVE todasBucle(_, _, _, _, _)
todasBucle(d, F, alf, L, st) ==
    IF st.cola = <<>> THEN st.salida
    ELSE todasBucle(d, F, alf, L, todasPaso(d, F, alf, L, st))

generarCadenasAceptadas(d, q0, F, alf, L) ==
    todasBucle(d, F, alf, L, [cola |-> <<(<<q0, <<>> >>)>>, salida |-> genInicio(q0, F)])

\* map<string,int>::operator[]: an absent key reads as 0
visitasDe(m, e) == IF e \in DOMAIN m THEN m[e] ELSE 0
visitasPon(m, e, n) == [x \in (DOMAIN m) \cup {e} |-> IF x = e THEN n ELSE m[x]]

Exploracion(e, c, v) == [estado |-> e, cadena |-> c, visitas |-> v]

\* limiteDestinos pruning one visit too late (>= where the code has >, shifted)
RECURSIVE limiteDestinosTarde(_, _, _, _, _, _, _)
limiteDestinosTarde(siguientes, simbolo, actual, F, L, k, st) ==
    IF siguientes = <<>> THEN st
    ELSE LET siguienteEstado == Head(siguientes)
             nueva == Exploracion(siguienteEstado, Append(actual.cadena, simbolo),
                          visitasPon(actual.visitas, siguienteEstado,
                                     visitasDe(actual.visitas, siguienteEstado) + 1))
             st1 == IF siguienteEstado \in F
                    THEN [st EXCEPT !.salida = Append(@, nueva.cadena)]
                    ELSE st
             st2 == IF sizeMenor(Len(nueva.cadena), L)
                    THEN [st1 EXCEPT !.cola = Append(@, nueva)]
                    ELSE st1
         IN  IF nueva.visitas[siguienteEstado] > k + 1
             THEN limiteDestinosTarde(Tail(siguientes), simbolo, actual, F, L, k, st)
             ELSE limiteDestinosTarde(Tail(siguientes), simbolo, actual, F, L, k, st2)

\* limiteDestinos with the pruning test inverted (<= where the code has >)
RECURSIVE limiteDestinosPodaInversa(_, _, _, _, _, _, _)
limiteDestinosPodaInversa(siguientes, simbolo, actual, F, L, k, st) ==
    IF siguientes = <<>> THEN st
    ELSE LET siguienteEstado == Head(siguientes)
             nueva == Exploracion(siguienteEstado, Append(actual.cadena, simbolo),
                          visitasPon(actual.visitas, siguienteEstado,
                                     visitasDe(actual.visitas, siguienteEstado) + 1))
             st1 == IF siguienteEstado \in F
                    THEN [st EXCEPT !.salida = Append(@, nueva.cadena)]
                    ELSE st
             st2 == IF sizeMenor(Len(nueva.cadena), L)
                    THEN [st1 EXCEPT !.cola = Append(@, nueva)]
                    ELSE st1
         IN  IF nueva.visitas[siguienteEstado] <= k
             THEN limiteDestinosPodaInversa(Tail(siguientes), simbolo, actual, F, L, k, st)
             ELSE limiteDestinosPodaInversa(Tail(siguientes), simbolo, actual, F, L, k, st2)

\* limiteDestinos cutting a branch already at the k-th visit of a state
RECURSIVE limiteDestinosUnoAntes(_, _, _, _, _, _, _)
limiteDestinosUnoAntes(siguientes, simbolo, actual, F, L, k, st) ==
    IF siguientes = <<>> THEN st
    ELSE LET siguienteEstado == Head(siguientes)
             nueva == Exploracion(siguienteEstado, Append(actual.cadena, simbolo),
                          visitasPon(actual.visitas, siguienteEstado,
                                     visitasDe(actual.visitas, siguienteEstado) + 1))
             st1 == IF siguienteEstado \in F
                    THEN [st EXCEPT !.salida = Append(@, nueva.cadena)]
                    ELSE st
             st2 == IF sizeMenor(Len(nueva.cadena), L)
                    THEN [st1 EXCEPT !.cola = Append(@, nueva)]
                    ELSE st1
         IN  IF nueva.visitas[siguienteEstado] >= k
             THEN limiteDestinosUnoAntes(Tail(siguientes), simbolo, actual, F, L, k, st)
             ELSE limiteDestinosUnoAntes(Tail(siguientes), simbolo, actual, F, L, k, st2)

\* generarCadenasConLimite: the inner for loop over siguientes
RECURSIVE limiteDestinos(_, _, _, _, _, _, _)
limiteDestinos(siguientes, simbolo, actual, F, L, k, st) ==
    IF siguientes = <<>> THEN st
    ELSE LET siguienteEstado == Head(siguientes)
             nueva == Exploracion(siguienteEstado, Append(actual.cadena, simbolo),
                          visitasPon(actual.visitas, siguienteEstado,
                                     visitasDe(actual.visitas, siguienteEstado) + 1))
             st1 == IF siguienteEstado \in F
                    THEN [st EXCEPT !.salida = Append(@, nueva.cadena)]
                    ELSE st
             st2 == IF sizeMenor(Len(nueva.cadena), L)
                    THEN [st1 EXCEPT !.cola = Append(@, nueva)]
                    ELSE st1
         IN  IF nueva.visitas[siguienteEstado] > k
             THEN limiteDestinos(Tail(siguientes), simbolo, actual, F, L, k, st)
             ELSE limiteDestinos(Tail(siguientes), simbolo, actual, F, L, k, st2)

\* generarCadenasConLimite: the for loop over the alphabet
RECURSIVE limiteSimbolos(_, _, _, _, _, _, _)
limiteSimbolos(alf, d, actual, F, L, k, st) ==
    IF alf = <<>> THEN st
    ELSE limiteSimbolos(Tail(alf), d, actual, F, L, k,
            limiteDestinos(getNextStates(d, actual.estado, Head(alf)),
                           Head(alf), actual, F, L, k, st))

\* generarCadenasConLimite: one iteration of the while loop
limitePaso(d, F, alf, L, k, st) ==
    LET actual == Head(st.cola)
        st1 == [st EXCEPT !.cola = Tail(@)]
    IN  IF sizeMayorIgual(Len(actual.cadena), L) THEN st1
        ELSE limiteSimbolos(alf, d, actual, F, L, k, st1)

RECURSIVE limiteBucle(_, _, _, _, _, _)
limiteBucle(d, F, alf, L, k, st) ==
    IF st.cola = <<>> THEN st.salida
    ELSE limiteBucle(d, F, alf, L, k, limitePaso(d, F, alf, L, k, st))

limiteInicio(q0) == <<Exploracion(q0, <<>>, visitasPon(<<>>, q0, 1))>>

generarCadenasConLimite(d, q0, F, alf, L, k) ==
    limiteBucle(d, F, alf, L, k, [cola |-> limiteInicio(q0), salida |-> genInicio(q0, F)])

----------------------------------------------------------------------------
(* The generator run: one call of either generator, its loop stepwise *)

InitGen ==
    /\ alfabeto \in Alfabetos
    /\ delta \in Tablas(GenEstados, Rango(alfabeto), MaxTransGen)
    /\ estadoInicial \in GenEstados
    /\ finales \in SUBSET GenEstados
    /\ longitudMaxima \in 0..MaxLongitud
    /\ \/ variante = "todas" /\ limiteCiclos = 0
       \/ variante = "limite" /\ limiteCiclos \in 0..MaxLimite
    /\ colaGen = IF variante = "todas" THEN <<(<<estadoInicial, <<>> >>)>>
                 ELSE limiteInicio(estadoInicial)
    /\ cadenasAceptadas = genInicio(estadoInicial, finales)
    /\ pcGen = "bucle"
    /\ cadena = <<>> /\ cola = <<>> /\ visitados = {} /\ estadosAlcanzados = {}
    /\ pcFA = "off" /\ aceptada = FALSE /\ resultados = <<>>
    /\ encoladas = <<>>
    /\ tablaOff /\ searchOff /\ editorOff

generarCadenasAceptadas_iter ==
    /\ pcGen = "bucle" /\ variante = "todas" /\ colaGen # <<>>
    /\ Len(Head(colaGen)[2]) <= MaxCadena
    /\ LET st == todasPaso(delta, finales, alfabeto, longitudMaxima,
                           [cola |-> colaGen, salida |-> cadenasAceptadas])
       IN  colaGen' = st.cola /\ cadenasAceptadas' = st.salida
    /\ UNCHANGED <<alfabeto, longitudMaxima, limiteCiclos, variante, pcGen>>
    /\ UNCHANGED <<faVars, tablaVars, searchVars, editorVars>>

generarCadenasConLimite_iter ==
    /\ pcGen = "bucle" /\ variante = "limite" /\ colaGen # <<>>
    /\ Len(Head(colaGen).cadena) <= MaxCadena
    /\ LET st == limitePaso(delta, finales, alfabeto, longitudMaxima, limiteCiclos,
                            [cola |-> colaGen, salida |-> cadenasAceptadas])
       IN  colaGen' = st.cola /\ cadenasAceptadas' = st.salida
    /\ UNCHANGED <<alfabeto, longitudMaxima, limiteCiclos, variante, pcGen>>
    /\ UNCHANGED <<faVars, tablaVars, searchVars, editorVars>>

\* the frontier is empty: the generator returns cadenasAceptadas
generar_return ==
    /\ pcGen = "bucle" /\ colaGen = <<>>
    /\ pcGen' = "hecho"
    /\ UNCHANGED <<alfabeto, longitudMaxima, limiteCiclos, variante, colaGen,
                   cadenasAceptadas>>
    /\ UNCHANGED <<faVars, tablaVars, searchVars, editorVars>>

NextGen == generarCadenasAceptadas_iter \/ generarCadenasConLimite_iter \/ generar_return

SpecGen == InitGen /\ [][NextGen]_vars

\* the call runs on: a loop iteration or the return that can be made is made
\* a generator called with a negative maxLength
InitGenNegativa ==
    /\ alfabeto \in Alfabetos
    /\ delta \in Tablas(GenEstados, Rango(alfabeto), MaxTransGen)
    /\ estadoInicial \in GenEstados
    /\ finales \in SUBSET GenEstados
    /\ longitudMaxima \in (-MaxNegativa)..(-1)
    /\ \/ variante = "todas" /\ limiteCiclos = 0
       \/ variante = "limite" /\ limiteCiclos \in 0..MaxLimite
    /\ colaGen = IF variante = "todas" THEN <<(<<estadoInicial, <<>> >>)>>
                 ELSE limiteInicio(estadoInicial)
    /\ cadenasAceptadas = genInicio(estadoInicial, finales)
    /\ pcGen = "bucle"
    /\ cadena = <<>> /\ cola = <<>> /\ visitados = {} /\ estadosAlcanzados = {}
    /\ pcFA = "off" /\ aceptada = FALSE /\ resultados = <<>>
    /\ encoladas = <<>>
    /\ tablaOff /\ searchOff /\ editorOff

SpecGenNegativa == InitGenNegativa /\ [][NextGen]_vars

SpecGenJusto == SpecGen /\ WF_vars(NextGen)

----------------------------------------------------------------------------
(* PDA: transitions, configurations, steps *)

\* '\0': epsilon as a PDA input or pop symbol, the blank sentinel of a TM
NUL == "NUL"

Reverse(s) == [i \in 1..Len(s) |-> s[Len(s) + 1 - i]]

PDA_Transition(from, in, pop, push, to) ==
    [from |-> from, input |-> in, pop |-> pop, push |-> push, to |-> to]

\* the transitions PDAs are built from
PDA_Universo ==
    { PDA_Transition("S", "a", "Z0", <<"A", "Z0">>, "S"),
      PDA_Transition("S", "b", "A", <<>>, "F"),
      PDA_Transition("S", NUL, NUL, <<"A">>, "S"),
      PDA_Transition("S", "a", NUL, <<>>, "S"),
      PDA_Transition("F", NUL, "Z0", <<>>, "S"),
      PDA_Transition("F", "b", "A", <<>>, "F"),
      PDA_Transition("S", "a", "A", <<"A", "A">>, "S") }

PDA_Estados == {"S", "F"}
PDA_Simbolos == {"a", "b"}

\* all sequences over U of length at most n
Listas(U, n) == UNION {[1..m -> U] : m \in 0..n}

\* a stack is a sequence, bottom first, top last
stackTop(st) == st[Len(st)]
stackPop(st) == SubSeq(st, 1, Len(st) - 1)

\* PDA::stackToString: the symbols from the top down
stackToString(st) == Reverse(st)

\* the start configuration accepts builds
PDA_Start(m) == [state |-> m.initialState, inputIndex |-> 0,
                 stack |-> <<m.initialStackSymbol>>]

\* the acceptance test of dfs_find
PDA_Acepta(m, w, current) ==
    current.inputIndex = Len(w) /\ current.state \in m.finalStates

\* the guards of the for loop without the test of the stack top
PDA_AplicableSinPop(t, w, current) ==
    /\ t.from = current.state
    /\ \/ t.input = NUL
       \/ current.inputIndex < Len(w) /\ w[current.inputIndex + 1] = t.input
    /\ t.pop # NUL => current.stack # <<>>

\* the three guards of the for loop: source state, input symbol, pop symbol
PDA_Aplicable(t, w, current) ==
    /\ t.from = current.state
    /\ \/ t.input = NUL
       \/ current.inputIndex < Len(w) /\ w[current.inputIndex + 1] = t.input
    /\ t.pop # NUL => (current.stack # <<>> /\ stackTop(current.stack) = t.pop)

\* push in the order the transition's string is written, first character first
PDA_NewStackAlDerecho(t, current) ==
    (IF t.pop # NUL THEN stackPop(current.stack) ELSE current.stack) \o t.push

\* the stack after the optional pop and the push loop over rbegin..rend
PDA_NewStack(t, current) ==
    (IF t.pop # NUL THEN stackPop(current.stack) ELSE current.stack) \o Reverse(t.push)

\* the step with the input index advanced on every firing, epsilon or not
PDA_StepSiempreAvanza(t, current) ==
    [fromState |-> current.state,
     toState |-> t.to,
     consumed |-> t.input,
     popped |-> IF t.pop # NUL THEN stackTop(current.stack) ELSE NUL,
     pushed |-> t.push,
     inputIndex |-> current.inputIndex + 1,
     stackSnapshot |-> stackToString(PDA_NewStack(t, current))]

\* the step dfs_find records for transition t fired in current
PDA_Step(t, current) ==
    [fromState |-> current.state,
     toState |-> t.to,
     consumed |-> t.input,
     popped |-> IF t.pop # NUL THEN stackTop(current.stack) ELSE NUL,
     pushed |-> t.push,
     inputIndex |-> current.inputIndex + (IF t.input = NUL THEN 0 ELSE 1),
     stackSnapshot |-> stackToString(PDA_NewStack(t, current))]

PDA_Next(t, current) ==
    [state |-> t.to,
     inputIndex |-> PDA_Step(t, current).inputIndex,
     stack |-> PDA_NewStack(t, current)]

----------------------------------------------------------------------------
(* TM: transitions, configurations, steps *)

TM_Transition(from, read, to, write, move) ==
    [fromState |-> from, readSymbol |-> read, toState |-> to,
     writeSymbol |-> write, moveDirection |-> move]

TM_Universo ==
    { TM_Transition("q", "0", "q", "1", "RIGHT"),
      TM_Transition("q", NUL, "f", NUL, "STAY"),
      TM_Transition("q", "_", "f", NUL, "LEFT"),
      TM_Transition("q", NUL, "f", NUL, "RIGHT"),
      TM_Transition("q", "0", "q", "0", "LEFT"),
      TM_Transition("q", "1", "q", "1", "STAY"),
      TM_Transition("q", "_", "q", "0", "LEFT") }

TM_Estados == {"q", "f"}
TM_Simbolos == {"0", "1"}

\* TM::tapeToString: the cells in order, the one under the head in brackets
RECURSIVE tapeToStringDesde(_, _, _)
tapeToStringDesde(tape, headPos, i) ==
    IF i >= Len(tape) THEN <<>>
    ELSE (IF i = headPos THEN <<"[", tape[i + 1], "]">> ELSE <<tape[i + 1]>>)
         \o tapeToStringDesde(tape, headPos, i + 1)

tapeToString(tape, headPos) == tapeToStringDesde(tape, headPos, 0)

\* expandTape prepending without counting the cell in tapeOffset
expandTapeSinOffset(m, c) ==
    IF c.headPosition < 0
    THEN [c EXCEPT !.tape = <<m.blankSymbol>> \o @,
                   !.headPosition = 0]
    ELSE IF c.headPosition >= Len(c.tape)
         THEN [c EXCEPT !.tape = Append(@, m.blankSymbol)]
         ELSE c

\* expandTape growing the tape on the left only
expandTapeSoloIzquierda(m, c) ==
    IF c.headPosition < 0
    THEN [c EXCEPT !.tape = <<m.blankSymbol>> \o @,
                   !.tapeOffset = @ + 1,
                   !.headPosition = 0]
    ELSE c

\* TM::expandTape on a configuration whose head has just moved
expandTape(m, c) ==
    IF c.headPosition < 0
    THEN [c EXCEPT !.tape = <<m.blankSymbol>> \o @,
                   !.tapeOffset = @ + 1,
                   !.headPosition = 0]
    ELSE IF c.headPosition >= Len(c.tape)
         THEN [c EXCEPT !.tape = Append(@, m.blankSymbol)]
         ELSE c

\* the start configuration accepts builds: the input, or one blank cell
TM_Start(m, w) ==
    [state |-> m.initialState,
     tape |-> IF w = <<>> THEN <<m.blankSymbol>> ELSE w,
     headPosition |-> 0,
     tapeOffset |-> 0]

\* acceptance asking also that the head has left the input behind
TM_AceptaTrasLeer(m, current) ==
    /\ current.state \in m.finalStates
    /\ current.headPosition - current.tapeOffset >= Len(input)

\* if (finalStates.count(current.state))
TM_Acepta(m, current) == current.state \in m.finalStates

\* the symbol under the head; blank when the head is outside the vector
currentSymbol(m, current) ==
    IF current.headPosition >= 0 /\ current.headPosition < Len(current.tape)
    THEN current.tape[current.headPosition + 1]
    ELSE m.blankSymbol

\* the test without the sentinel: a readSymbol of NUL matches nothing
TM_AplicableSinCentinela(m, t, current) ==
    /\ t.fromState = current.state
    /\ t.readSymbol = currentSymbol(m, current)

TM_Aplicable(m, t, current) ==
    /\ t.fromState = current.state
    /\ \/ t.readSymbol = currentSymbol(m, current)
       \/ t.readSymbol = NUL /\ currentSymbol(m, current) = m.blankSymbol

\* the next configuration with the write left out
TM_NextSinEscribir(m, t, current) ==
    LET movido == [current EXCEPT
                      !.headPosition =
                          IF t.moveDirection = "LEFT" THEN @ - 1
                          ELSE IF t.moveDirection = "RIGHT" THEN @ + 1
                          ELSE @]
    IN  [expandTape(m, movido) EXCEPT !.state = t.toState]

\* write, move, expand, change state (the head is on a cell of the vector in
\* every configuration simulate is entered with)
TM_Next(m, t, current) ==
    LET escrito == [current EXCEPT
                      !.tape[current.headPosition + 1] =
                          IF t.writeSymbol = NUL THEN m.blankSymbol ELSE t.writeSymbol]
        movido == [escrito EXCEPT
                      !.headPosition =
                          IF t.moveDirection = "LEFT" THEN @ - 1
                          ELSE IF t.moveDirection = "RIGHT" THEN @ + 1
                          ELSE @]
    IN  [expandTape(m, movido) EXCEPT !.state = t.toState]

\* the step recording the head position the configuration had before the move
TM_StepCabezalPrevio(m, t, current) ==
    [fromState |-> current.state,
     toState |-> t.toState,
     readSymbol |-> currentSymbol(m, current),
     writeSymbol |-> t.writeSymbol,
     moveDirection |-> t.moveDirection,
     tapeSnapshot |-> tapeToString(TM_Next(m, t, current).tape,
                                   TM_Next(m, t, current).headPosition),
     headPosition |-> current.headPosition]

TM_Step(m, t, current) ==
    [fromState |-> current.state,
     toState |-> t.toState,
     readSymbol |-> currentSymbol(m, current),
     writeSymbol |-> t.writeSymbol,
     moveDirection |-> t.moveDirection,
     tapeSnapshot |-> tapeToString(TM_Next(m, t, current).tape,
                                   TM_Next(m, t, current).headPosition),
     headPosition |-> TM_Next(m, t, current).headPosition]

----------------------------------------------------------------------------
(* The depth-first search: one accepts call of a PDA or a TM, stepwise.      *)
(* frames is the call stack of dfs_find / simulate, innermost last; a frame  *)
(* holds the invocation's configuration, the index of the transition its for *)
(* loop is at, and where the invocation stands: "entry" (called, prologue not *)
(* run), "loop" (in the for loop), "called" (waiting for the recursive call). *)

Frame(c) == [current |-> c, i |-> 1, pc |-> "entry"]

\* the content of the caller's vector before the call
PathPrevio == <<[previo |-> TRUE]>>

Aplicable(t, c) ==
    IF maquina.kind = "PDA" THEN PDA_Aplicable(t, input, c)
    ELSE TM_Aplicable(maquina, t, c)

Acepta(c) ==
    IF maquina.kind = "PDA" THEN PDA_Acepta(maquina, input, c)
    ELSE TM_Acepta(maquina, c)

StepDe(t, c) ==
    IF maquina.kind = "PDA" THEN PDA_Step(t, c) ELSE TM_Step(maquina, t, c)

NextDe(t, c) ==
    IF maquina.kind = "PDA" THEN PDA_Next(t, c) ELSE TM_Next(maquina, t, c)

\* the first transition at or after index i the for loop does not skip; 0 if none
RECURSIVE siguienteAplicable(_, _)
siguienteAplicable(c, i) ==
    IF i > Len(maquina.transitions) THEN 0
    ELSE IF Aplicable(maquina.transitions[i], c) THEN i
    ELSE siguienteAplicable(c, i + 1)

Top == frames[Len(frames)]
PopFrame == SubSeq(frames, 1, Len(frames) - 1)

InitPDA ==
    /\ \E ts \in Listas(PDA_Universo, MaxMaquinaTrans), fs \in SUBSET PDA_Estados :
          maquina = [kind |-> "PDA", initialState |-> "S", initialStackSymbol |-> "Z0",
                     transitions |-> ts, finalStates |-> fs]
    /\ input \in Cadenas(PDA_Simbolos, MaxInput)
    /\ frames = <<Frame(PDA_Start(maquina))>>

InitTM ==
    /\ \E ts \in Listas(TM_Universo, MaxMaquinaTrans), fs \in SUBSET TM_Estados :
          maquina = [kind |-> "TM", initialState |-> "q", blankSymbol |-> "_",
                     transitions |-> ts, finalStates |-> fs]
    /\ input \in Cadenas(TM_Simbolos, MaxInput)
    /\ frames = <<Frame(TM_Start(maquina, input))>>

\* accepts has built the start configuration and is about to call the search
InitSearch ==
    /\ InitPDA \/ InitTM
    /\ maxSteps \in (-MaxSinBudget)..MaxBudget
    /\ stepsRemaining = maxSteps
    /\ pathSoFar = <<>> /\ resultPath = <<>> /\ outPath = PathPrevio
    /\ ret = "none" /\ found = FALSE /\ pcS = "run"
    /\ examinadas = 0 /\ entradas = <<(<<>>)>> /\ devuelta = <<>>
    /\ pasoPedido = SinConsulta
    /\ faOff /\ tablaOff /\ genOff /\ editorOff

\* the entry paths of the open invocations once the innermost has returned
PopEntrada == SubSeq(entradas, 1, Len(entradas) - 1)

\* the prologue with the acceptance test ahead of the budget test
PrologoAceptaPrimero ==
    /\ pcS = "run" /\ frames # <<>> /\ Top.pc = "entry"
    /\ stepsRemaining' = stepsRemaining - 1
    /\ IF Acepta(Top.current)
       THEN /\ resultPath' = pathSoFar
            /\ frames' = PopFrame /\ ret' = "true"
            /\ examinadas' = examinadas + 1
            /\ entradas' = PopEntrada /\ devuelta' = entradas[Len(entradas)]
       ELSE IF stepsRemaining <= 0
       THEN /\ frames' = PopFrame /\ ret' = "false"
            /\ entradas' = PopEntrada /\ devuelta' = entradas[Len(entradas)]
            /\ UNCHANGED <<resultPath, examinadas>>
       ELSE /\ frames' = [frames EXCEPT ![Len(frames)].pc = "loop"]
            /\ examinadas' = examinadas + 1
            /\ UNCHANGED <<resultPath, ret, entradas, devuelta>>
    /\ UNCHANGED <<maquina, input, maxSteps, pathSoFar, outPath, found, pcS>>
    /\ UNCHANGED <<pasoPedido, faVars, tablaVars, genVars, editorVars>>

\* the prologue with the budget test one unit late (< 0 for <= 0)
PrologoUnoDeMas ==
    /\ pcS = "run" /\ frames # <<>> /\ Top.pc = "entry"
    /\ stepsRemaining' = stepsRemaining - 1
    /\ IF stepsRemaining < 0
       THEN /\ frames' = PopFrame /\ ret' = "false"
            /\ entradas' = PopEntrada /\ devuelta' = entradas[Len(entradas)]
            /\ UNCHANGED <<resultPath, examinadas>>
       ELSE IF Acepta(Top.current)
       THEN /\ resultPath' = pathSoFar
            /\ frames' = PopFrame /\ ret' = "true"
            /\ examinadas' = examinadas + 1
            /\ entradas' = PopEntrada /\ devuelta' = entradas[Len(entradas)]
       ELSE /\ frames' = [frames EXCEPT ![Len(frames)].pc = "loop"]
            /\ examinadas' = examinadas + 1
            /\ UNCHANGED <<resultPath, ret, entradas, devuelta>>
    /\ UNCHANGED <<maquina, input, maxSteps, pathSoFar, outPath, found, pcS>>
    /\ UNCHANGED <<pasoPedido, faVars, tablaVars, genVars, editorVars>>

\* the prologue of an invocation: the budget test with its decrement, then the
\* acceptance test
Prologo ==
    /\ pcS = "run" /\ frames # <<>> /\ Top.pc = "entry"
    /\ stepsRemaining' = stepsRemaining - 1
    /\ IF stepsRemaining <= 0
       THEN /\ frames' = PopFrame /\ ret' = "false"
            /\ entradas' = PopEntrada /\ devuelta' = entradas[Len(entradas)]
            /\ UNCHANGED <<resultPath, examinadas>>
       ELSE IF Acepta(Top.current)
       THEN /\ resultPath' = pathSoFar
            /\ frames' = PopFrame /\ ret' = "true"
            /\ examinadas' = examinadas + 1
            /\ entradas' = PopEntrada /\ devuelta' = entradas[Len(entradas)]
       ELSE /\ frames' = [frames EXCEPT ![Len(frames)].pc = "loop"]
            /\ examinadas' = examinadas + 1
            /\ UNCHANGED <<resultPath, ret, entradas, devuelta>>
    /\ UNCHANGED <<maquina, input, maxSteps, pathSoFar, outPath, found, pcS>>
    /\ UNCHANGED <<pasoPedido, faVars, tablaVars, genVars, editorVars>>

\* the for loop runs to its next applicable transition and fires it (the step is
\* appended and the search called on the new configuration), or runs out of
\* transitions and the invocation returns false
Intentar ==
    /\ pcS = "run" /\ frames # <<>> /\ Top.pc = "loop"
    /\ LET j == siguienteAplicable(Top.current, Top.i)
       IN  IF j = 0
           THEN /\ frames' = PopFrame /\ ret' = "false"
                /\ entradas' = PopEntrada /\ devuelta' = entradas[Len(entradas)]
                /\ UNCHANGED pathSoFar
           ELSE LET t == maquina.transitions[j]
                IN  /\ pathSoFar' = Append(pathSoFar, StepDe(t, Top.current))
                    /\ frames' = Append([frames EXCEPT ![Len(frames)].pc = "called",
                                                       ![Len(frames)].i = j],
                                        Frame(NextDe(t, Top.current)))
                    /\ ret' = "none"
                    /\ entradas' = Append(entradas, pathSoFar')
                    /\ UNCHANGED devuelta
    /\ UNCHANGED <<maquina, input, maxSteps, stepsRemaining, resultPath, outPath,
                   found, pcS, examinadas>>
    /\ UNCHANGED <<pasoPedido, faVars, tablaVars, genVars, editorVars>>

\* the backtrack leaving the loop at the transition that failed
RetrocederSinAvanzar ==
    /\ pcS = "run" /\ frames # <<>> /\ Top.pc = "called" /\ ret = "false"
    /\ pathSoFar' = SubSeq(pathSoFar, 1, Len(pathSoFar) - 1)
    /\ frames' = [frames EXCEPT ![Len(frames)].pc = "loop"]
    /\ ret' = "none"
    /\ UNCHANGED <<maquina, input, maxSteps, stepsRemaining, resultPath, outPath,
                   found, pcS, examinadas, entradas, devuelta>>
    /\ UNCHANGED <<pasoPedido, faVars, tablaVars, genVars, editorVars>>

\* the backtrack passing over the transition after the one that failed
RetrocederSaltaUna ==
    /\ pcS = "run" /\ frames # <<>> /\ Top.pc = "called" /\ ret = "false"
    /\ pathSoFar' = SubSeq(pathSoFar, 1, Len(pathSoFar) - 1)
    /\ frames' = [frames EXCEPT ![Len(frames)].pc = "loop",
                                ![Len(frames)].i = @ + 2]
    /\ ret' = "none"
    /\ UNCHANGED <<maquina, input, maxSteps, stepsRemaining, resultPath, outPath,
                   found, pcS, examinadas, entradas, devuelta>>
    /\ UNCHANGED <<pasoPedido, faVars, tablaVars, genVars, editorVars>>

\* the backtrack without the pop_back
RetrocederSinPop ==
    /\ pcS = "run" /\ frames # <<>> /\ Top.pc = "called" /\ ret = "false"
    /\ pathSoFar' = pathSoFar
    /\ frames' = [frames EXCEPT ![Len(frames)].pc = "loop",
                                ![Len(frames)].i = @ + 1]
    /\ ret' = "none"
    /\ UNCHANGED <<maquina, input, maxSteps, stepsRemaining, resultPath, outPath,
                   found, pcS, examinadas, entradas, devuelta>>
    /\ UNCHANGED <<pasoPedido, faVars, tablaVars, genVars, editorVars>>

\* the recursive call returned false: the step is removed, the loop goes on
Retroceder ==
    /\ pcS = "run" /\ frames # <<>> /\ Top.pc = "called" /\ ret = "false"
    /\ pathSoFar' = SubSeq(pathSoFar, 1, Len(pathSoFar) - 1)
    /\ frames' = [frames EXCEPT ![Len(frames)].pc = "loop",
                                ![Len(frames)].i = @ + 1]
    /\ ret' = "none"
    /\ UNCHANGED <<maquina, input, maxSteps, stepsRemaining, resultPath, outPath,
                   found, pcS, examinadas, entradas, devuelta>>
    /\ UNCHANGED <<pasoPedido, faVars, tablaVars, genVars, editorVars>>

\* the recursive call returned true: the invocation returns true at once
Propagar ==
    /\ pcS = "run" /\ frames # <<>> /\ Top.pc = "called" /\ ret = "true"
    /\ frames' = PopFrame
    /\ entradas' = PopEntrada /\ devuelta' = entradas[Len(entradas)]
    /\ UNCHANGED <<maquina, input, maxSteps, stepsRemaining, pathSoFar, resultPath,
                   outPath, ret, found, pcS, examinadas>>
    /\ UNCHANGED <<pasoPedido, faVars, tablaVars, genVars, editorVars>>

dfs_find_prologue == maquina.kind = "PDA" /\ Prologo
dfs_find_try == maquina.kind = "PDA" /\ Intentar
dfs_find_backtrack == maquina.kind = "PDA" /\ Retroceder
dfs_find_return_true == maquina.kind = "PDA" /\ Propagar

simulate_prologue == maquina.kind = "TM" /\ Prologo
simulate_try == maquina.kind = "TM" /\ Intentar
simulate_backtrack == maquina.kind = "TM" /\ Retroceder
simulate_return_true == maquina.kind = "TM" /\ Propagar

\* accepts copying the result path out whatever the search returned
accepts_returnCopiaSiempre ==
    /\ pcS = "run" /\ frames = <<>>
    /\ found' = (ret = "true")
    /\ outPath' = resultPath
    /\ pcS' = "done"
    /\ UNCHANGED <<maquina, input, maxSteps, stepsRemaining, frames, pathSoFar,
                   resultPath, ret, examinadas, entradas, devuelta>>
    /\ UNCHANGED <<pasoPedido, faVars, tablaVars, genVars, editorVars>>

\* the outermost invocation has returned: accepts copies the path on success
accepts_return ==
    /\ pcS = "run" /\ frames = <<>>
    /\ found' = (ret = "true")
    /\ outPath' = IF ret = "true" THEN resultPath ELSE outPath
    /\ pcS' = "done"
    /\ UNCHANGED <<maquina, input, maxSteps, stepsRemaining, frames, pathSoFar,
                   resultPath, ret, examinadas, entradas, devuelta>>
    /\ UNCHANGED <<pasoPedido, faVars, tablaVars, genVars, editorVars>>

\* the empty optional, and the optional holding a step
nullopt == [has_value |-> FALSE]
optional(step) == [has_value |-> TRUE, value |-> step]

\* the bounds test one index too strict
getStepFromPathUnoAntes(path, i) ==
    IF i + 1 >= Len(path) THEN nullopt ELSE optional(path[i + 1])

\* if (i >= path.size()) return nullopt; return path[i];
getStepFromPath(path, i) ==
    IF i >= Len(path) THEN nullopt ELSE optional(path[i + 1])

\* the caller's vector after the call: the parameter is a const reference
pathTrasGetStep(path, i) == path

\* a caller asks for step i of the path accepts left in *outPath
LlamadaGetStep ==
    /\ pcS = "done"
    /\ \E i \in 0..MaxIndice :
          /\ pasoPedido' = [op |-> "get", path |-> outPath, i |-> i,
                            devuelto |-> getStepFromPath(outPath, i)]
          /\ outPath' = pathTrasGetStep(outPath, i)
    /\ UNCHANGED <<maquina, input, maxSteps, stepsRemaining, frames, pathSoFar,
                   resultPath, ret, found, pcS, examinadas, entradas, devuelta>>
    /\ UNCHANGED <<faVars, tablaVars, genVars, editorVars>>

PDA_getStepFromPath == maquina.kind = "PDA" /\ LlamadaGetStep
TM_getStepFromPath == maquina.kind = "TM" /\ LlamadaGetStep

NextSearch ==
    \/ dfs_find_prologue \/ dfs_find_try \/ dfs_find_backtrack \/ dfs_find_return_true
    \/ simulate_prologue \/ simulate_try \/ simulate_backtrack \/ simulate_return_true
    \/ accepts_return
    \/ PDA_getStepFromPath \/ TM_getStepFromPath

SpecSearch == InitSearch /\ [][NextSearch]_vars

\* the call runs on: a step that can be taken is taken
SpecSearchJusto == SpecSearch /\ WF_vars(NextSearch)

----------------------------------------------------------------------------
(* AutomatonEditor: the transitions drawn in the scene, the table built from  *)
(* them, and the stepwise validation run driven by the timer and the buttons. *)
(* Every handler runs to its end before the next event is taken.              *)

EditorEstados == {"q0", "q1"}

\* the label of a TransitionItem that was never given a symbol
Epsilon == "epsilon"

\* a TransitionItem as onStateClicked creates it; symbol holds the label split
\* at the commas
TransitionItem(start, end) == [start |-> start, end |-> end, symbol |-> <<Epsilon>>]

\* the scenes of at most MaxItems transitions, each between two different states
Escenas ==
    Listas({TransitionItem(par[1], par[2]) :
               par \in {p \in EditorEstados \X EditorEstados : p[1] # p[2]}},
           MaxItems)

\* the texts of the symbol field that pass onUpdateTransitionSymbol's validation
TextosValidos == {<<"a">>, <<"b">>, <<"a", "b">>}

\* addTransition(from, symbol, to) for every symbol of the list but epsilon
RECURSIVE rebuildSimbolos(_, _, _, _)
rebuildSimbolos(d, from, to, symbols) ==
    IF symbols = <<>> THEN d
    ELSE rebuildSimbolos(IF Head(symbols) # Epsilon
                         THEN addTransition(d, from, Head(symbols), to)
                         ELSE d,
                         from, to, Tail(symbols))

RECURSIVE rebuildItems(_, _)
rebuildItems(d, items) ==
    IF items = <<>> THEN d
    ELSE rebuildItems(rebuildSimbolos(d, Head(items).start, Head(items).end,
                                      Head(items).symbol),
                      Tail(items))

\* clear, then the transitions of scene->items(), the item created last first
rebuildTransitionHandler(d, items) == rebuildItems(clear(d), Reverse(items))

\* the inner loops of onNextStepValidation: the destinations not yet in the set
RECURSIVE agregarSiguientes(_, _)
agregarSiguientes(nextStatesVec, nombres) ==
    IF nombres = <<>> THEN nextStatesVec
    ELSE agregarSiguientes(IF Head(nombres) \in Rango(nextStatesVec)
                           THEN nextStatesVec
                           ELSE Append(nextStatesVec, Head(nombres)),
                           Tail(nombres))

\* the loop leaving the current states where they are
siguientesDeSinAvanzar(d, actuales, symbol, nextStatesVec) == actuales

RECURSIVE siguientesDe(_, _, _, _)
siguientesDe(d, actuales, symbol, nextStatesVec) ==
    IF actuales = <<>> THEN nextStatesVec
    ELSE siguientesDe(d, Tail(actuales), symbol,
                      agregarSiguientes(nextStatesVec,
                                        getNextStates(d, Head(actuales), symbol)))

InitEditor ==
    /\ escena \in Escenas
    /\ estadosEditor \in [EditorEstados -> BOOLEAN]
    /\ initialState \in EditorEstados
    /\ chainInput \in Cadenas(Simbolos, MaxChain)
    /\ transitionHandler = TablaVacia
    /\ selectedTransitionItem = 0 /\ ediciones = 0
    /\ validationChain = <<>> /\ validationStep = 0
    /\ currentValidationStates = <<>> /\ timerActivo = FALSE
    /\ playEnabled = TRUE /\ nextStepEnabled = TRUE
    /\ validationStatus = "Idle" /\ corrida = "ninguna" /\ tablaAlPlay = TablaVacia
    /\ edicionesAlPlay = 0
    /\ faOff /\ tablaOff /\ genOff /\ searchOff

onTransitionItemSelected ==
    /\ validationStatus # "off"
    /\ \E item \in DOMAIN escena :
          item # selectedTransitionItem /\ selectedTransitionItem' = item
    /\ UNCHANGED <<escena, estadosEditor, initialState, chainInput, transitionHandler,
                   ediciones, validationChain, validationStep,
                   currentValidationStates, timerActivo, playEnabled,
                   nextStepEnabled, validationStatus, corrida, tablaAlPlay>>
    /\ UNCHANGED <<edicionesAlPlay, faVars, tablaVars, genVars, searchVars>>

\* the text passed validation: its symbols are added to the table and become
\* the item's label
onUpdateTransitionSymbol ==
    /\ selectedTransitionItem # 0 /\ ediciones < MaxEdiciones
    /\ \E texto \in TextosValidos :
          LET item == escena[selectedTransitionItem]
          IN  /\ transitionHandler' =
                    rebuildSimbolos(transitionHandler, item.start, item.end, texto)
              /\ escena' = [escena EXCEPT ![selectedTransitionItem].symbol = texto]
    /\ selectedTransitionItem' = 0
    /\ ediciones' = ediciones + 1
    /\ UNCHANGED <<estadosEditor, initialState, chainInput, validationChain,
                   validationStep, currentValidationStates, timerActivo, playEnabled,
                   nextStepEnabled, validationStatus, corrida, tablaAlPlay>>
    /\ UNCHANGED <<edicionesAlPlay, faVars, tablaVars, genVars, searchVars>>

\* rebuild the table, reset the validation keeping the chain, start the run
onPlayValidation ==
    /\ validationStatus # "off" /\ playEnabled
    /\ transitionHandler' = rebuildTransitionHandler(transitionHandler, escena)
    /\ validationChain' = chainInput
    /\ validationStep' = 0
    /\ currentValidationStates' = <<initialState>>
    /\ timerActivo' = TRUE
    /\ playEnabled' = TRUE /\ nextStepEnabled' = TRUE
    /\ validationStatus' = "In progress..."
    /\ corrida' = "en curso"
    /\ tablaAlPlay' = transitionHandler'
    /\ edicionesAlPlay' = ediciones
    /\ UNCHANGED <<escena, estadosEditor, initialState, chainInput,
                   selectedTransitionItem, ediciones>>
    /\ UNCHANGED <<faVars, tablaVars, genVars, searchVars>>

onPauseValidation ==
    /\ validationStatus # "off"
    /\ timerActivo' = FALSE
    /\ validationStatus' = "Paused"
    /\ UNCHANGED <<escena, estadosEditor, initialState, chainInput, transitionHandler,
                   selectedTransitionItem, ediciones, validationChain, validationStep,
                   currentValidationStates, playEnabled, nextStepEnabled, corrida,
                   tablaAlPlay>>
    /\ UNCHANGED <<edicionesAlPlay, faVars, tablaVars, genVars, searchVars>>

onClearValidation ==
    /\ validationStatus # "off"
    /\ timerActivo' = FALSE
    /\ currentValidationStates' = <<>>
    /\ validationStep' = 0
    /\ validationChain' = <<>>
    /\ chainInput' = <<>>
    /\ playEnabled' = TRUE /\ nextStepEnabled' = TRUE
    /\ validationStatus' = "Idle"
    /\ corrida' = "ninguna"
    /\ UNCHANGED <<escena, estadosEditor, initialState, transitionHandler,
                   selectedTransitionItem, ediciones, tablaAlPlay>>
    /\ UNCHANGED <<edicionesAlPlay, faVars, tablaVars, genVars, searchVars>>

\* rebuild the table and show what esAceptada says of the chain in the field
onInstantValidateClicked ==
    /\ validationStatus # "off"
    /\ transitionHandler' = rebuildTransitionHandler(transitionHandler, escena)
    /\ validationStatus' =
          IF esAceptada(transitionHandler', initialState,
                        {q \in EditorEstados : estadosEditor[q]}, chainInput)
          THEN "Accepted (Instant Check)" ELSE "Rejected (Instant Check)"
    /\ UNCHANGED <<escena, estadosEditor, initialState, chainInput,
                   selectedTransitionItem, ediciones, validationChain, validationStep,
                   currentValidationStates, timerActivo, playEnabled,
                   nextStepEnabled, corrida, tablaAlPlay>>
    /\ UNCHANGED <<edicionesAlPlay, faVars, tablaVars, genVars, searchVars>>

\* the slot of the timer and of the next-step button
onNextStepValidation ==
    /\ IF currentValidationStates = <<>>
       THEN /\ timerActivo' = FALSE
            /\ validationStatus' = "Rejected (no possible transitions)"
            /\ playEnabled' = FALSE /\ nextStepEnabled' = FALSE
            /\ corrida' = IF corrida = "en curso" THEN "veredicto" ELSE corrida
            /\ UNCHANGED <<currentValidationStates, validationStep>>
       ELSE IF validationStep >= Len(validationChain)
       THEN /\ timerActivo' = FALSE
            /\ validationStatus' =
                  IF \E i \in DOMAIN currentValidationStates :
                        estadosEditor[currentValidationStates[i]]
                  THEN "Accepted" ELSE "Rejected (ended in non-final state)"
            /\ playEnabled' = FALSE /\ nextStepEnabled' = FALSE
            /\ corrida' = IF corrida = "en curso" THEN "veredicto" ELSE corrida
            /\ UNCHANGED <<currentValidationStates, validationStep>>
       ELSE /\ currentValidationStates' =
                  siguientesDe(transitionHandler, currentValidationStates,
                               validationChain[validationStep + 1], <<>>)
            /\ validationStep' = validationStep + 1
            /\ UNCHANGED <<timerActivo, validationStatus, playEnabled,
                           nextStepEnabled, corrida>>
    /\ UNCHANGED <<escena, estadosEditor, initialState, chainInput, transitionHandler,
                   selectedTransitionItem, ediciones, validationChain, tablaAlPlay>>
    /\ UNCHANGED <<edicionesAlPlay, faVars, tablaVars, genVars, searchVars>>

validationTimer_timeout == timerActivo /\ onNextStepValidation

nextStepButton_clicked ==
    validationStatus # "off" /\ nextStepEnabled /\ onNextStepValidation

NextEditor ==
    \/ onTransitionItemSelected \/ onUpdateTransitionSymbol \/ onPlayValidation
    \/ onPauseValidation \/ onClearValidation \/ onInstantValidateClicked
    \/ validationTimer_timeout \/ nextStepButton_clicked

SpecEditor == InitEditor /\ [][NextEditor]_vars

----------------------------------------------------------------------------
(* Reference notions the claims are stated with *)

\* one step of the subset construction
pasoSubconjunto(d, S, s) ==
    UNION {Rango(getNextStates(d, q, s)) : q \in S}

\* the states some sequence of table transitions spelling w leads to from S
RECURSIVE Alcanzables(_, _, _)
Alcanzables(d, S, w) ==
    IF w = <<>> THEN S
    ELSE Alcanzables(d, pasoSubconjunto(d, S, Head(w)), Tail(w))

\* the runs spelling w from the configurations in C, each with the number of
\* times it has been in every state
RECURSIVE Corridas(_, _, _)
Corridas(d, C, w) ==
    IF w = <<>> THEN C
    ELSE Corridas(d,
            UNION {{[estado |-> to, veces |-> [c.veces EXCEPT ![to] = @ + 1]] :
                      to \in Rango(getNextStates(d, c.estado, Head(w)))} : c \in C},
            Tail(w))

CorridaInicial(q0) ==
    {[estado |-> q0, veces |-> [e \in Estados |-> IF e = q0 THEN 1 ELSE 0]]}

\* w labels a run from q0 to a state of F on which no state appears more than k times
EtiquetaCorridaLimitada(d, q0, F, w, k) ==
    \E c \in Corridas(d, CorridaInicial(q0), w) :
        c.estado \in F /\ \A e \in Estados : c.veces[e] <= k

----------------------------------------------------------------------------
(* C1..C2: validarCadena and esAceptada (specification SpecFA) *)

\* C1: when validarCadena has returned, its set is exactly the set of states
\* reached from the initial state by table transitions spelling the input
C1_ValidarCadenaExacta ==
    pcFA \in {"vuelto", "hecho"} =>
        estadosAlcanzados = Alcanzables(delta, {estadoInicial}, cadena)

\* an NFA run over a two-symbol input that ends in two states at once
C1_Witness ==
    /\ pcFA = "vuelto"
    /\ Len(cadena) = 2
    /\ Cardinality(estadosAlcanzados) = 2

dfaTabla == addTransition(addTransition(TablaVacia, "q0", "a", "q1"), "q1", "b", "q2")

\* C2: esAceptada returns true exactly when the set validarCadena returned holds a
\* final state; on the DFA (q0,a,q1),(q1,b,q2) with F = {q2} it accepts "ab" and
\* rejects "a" and ""
C2_EsAceptadaInterseccion ==
    pcFA = "hecho" =>
        /\ aceptada <=> (estadosAlcanzados \cap finales # {})
        /\ (delta = dfaTabla /\ estadoInicial = "q0" /\ finales = {"q2"}) =>
              /\ cadena = <<"a", "b">> => aceptada
              /\ cadena = <<"a">> => ~aceptada
              /\ cadena = <<>> => ~aceptada

\* the DFA example has accepted "ab"
C2_Witness ==
    /\ pcFA = "hecho" /\ delta = dfaTabla /\ estadoInicial = "q0"
    /\ finales = {"q2"} /\ cadena = <<"a", "b">> /\ aceptada

----------------------------------------------------------------------------
(* C7..C9: the generators (specification SpecGen) *)

\* the cycle limit cannot bind: a run of at most longitudMaxima transitions is
\* in no state more than longitudMaxima + 1 times
SinLimiteEfectivo == variante = "todas" \/ limiteCiclos >= longitudMaxima + 1

C9_CadaCadenaUnaVez ==
    (pcGen = "hecho" /\ variante = "todas") =>
        /\ Rango(cadenasAceptadas) =
              {w \in Cadenas(Rango(alfabeto), longitudMaxima) :
                  esAceptada(delta, estadoInicial, finales, w)}
        /\ \A i, j \in DOMAIN cadenasAceptadas :
              cadenasAceptadas[i] = cadenasAceptadas[j] => i = j

----------------------------------------------------------------------------
(* C3..C6, C10: the PDA and TM searches (specification SpecSearch) *)

esPDA == maquina.kind = "PDA"
esTM == maquina.kind = "TM"

\* the input index before step i of path p
indiceAntes(p, i) == IF i = 1 THEN 0 ELSE p[i - 1].inputIndex

\* C3: the path PDA::accepts hands out on success is a legal run: it starts in the
\* initial state, consecutive steps chain, every step is the firing of a
\* transition that advances the input index by one over the symbol it consumed or
\* by zero on epsilon, and it ends with the input used up in a final state; it is
\* empty only for the empty input with a final initial state
C3_PathLegal ==
    (esPDA /\ pcS = "done" /\ found) =>
        LET p == outPath
            n == Len(p)
        IN  /\ n = 0 => (input = <<>> /\ maquina.initialState \in maquina.finalStates)
            /\ n > 0 =>
                  /\ p[1].fromState = maquina.initialState
                  /\ p[n].inputIndex = Len(input)
                  /\ p[n].toState \in maquina.finalStates
            /\ \A i \in 1..(n - 1) : p[i].toState = p[i + 1].fromState
            /\ \A i \in 1..n :
                  /\ \E j \in DOMAIN maquina.transitions :
                        LET t == maquina.transitions[j]
                        IN  /\ t.from = p[i].fromState /\ t.to = p[i].toState
                            /\ t.input = p[i].consumed /\ t.push = p[i].pushed
                  /\ \/ p[i].consumed = NUL /\ p[i].inputIndex = indiceAntes(p, i)
                     \/ /\ p[i].consumed # NUL
                        /\ p[i].inputIndex = indiceAntes(p, i) + 1
                        /\ indiceAntes(p, i) < Len(input)
                        /\ input[indiceAntes(p, i) + 1] = p[i].consumed

\* an accepted run that mixes an epsilon move and a consuming move
C3_Witness ==
    /\ esPDA /\ pcS = "done" /\ found
    /\ \E i, j \in DOMAIN outPath : outPath[i].consumed = NUL /\ outPath[j].consumed # NUL

\* the stack, top first, before step i of path p
snapshotAntes(p, i) ==
    IF i = 1 THEN <<maquina.initialStackSymbol>> ELSE p[i - 1].stackSnapshot

escenarioPDA ==
    /\ esPDA
    /\ Len(maquina.transitions) = 2
    /\ Rango(maquina.transitions) =
          { PDA_Transition("S", "a", "Z0", <<"A", "Z0">>, "S"),
            PDA_Transition("S", "b", "A", <<>>, "F") }
    /\ maquina.finalStates = {"F"}

\* C5: on the PDA {(S,a,Z0,"A Z0",S), (S,b,A,"",F)} with stack Z0 and final F,
\* accepts("ab") returns true with the last step's stack snapshot exactly Z0 (for
\* every budget that covers the run's three invocations, as the default 100000
\* does), and accepts("b") returns false
C5_EscenarioPDA ==
    (escenarioPDA /\ pcS = "done") =>
        /\ (input = <<"a", "b">> /\ maxSteps >= 3) =>
              /\ found
              /\ outPath # <<>>
              /\ outPath[Len(outPath)].stackSnapshot = <<"Z0">>
        /\ input = <<"b">> => ~found

\* the scenario PDA has accepted "ab"
C5_Witness ==
    escenarioPDA /\ pcS = "done" /\ input = <<"a", "b">> /\ found

\* n copies of symbol c
Repetir(c, n) == [i \in 1..n |-> c]

\* the two-state machine of the scenario: '0' becomes '1' moving RIGHT, a blank
\* (read through the sentinel or as the blank symbol itself) leads to the final
\* state
escenarioTM ==
    /\ esTM
    /\ Len(maquina.transitions) = 2
    /\ TM_Transition("q", "0", "q", "1", "RIGHT") \in Rango(maquina.transitions)
    /\ \E t \in Rango(maquina.transitions) :
          t.fromState = "q" /\ t.readSymbol \in {NUL, "_"} /\ t.toState = "f"
    /\ maquina.finalStates = {"f"}
    /\ input = Repetir("0", Len(input))

\* a snapshot without the head marker's brackets and without blank cells
RECURSIVE sinMarcas(_)
sinMarcas(snap) ==
    IF snap = <<>> THEN <<>>
    ELSE IF Head(snap) \in {"[", "]", "_"} THEN sinMarcas(Tail(snap))
    ELSE <<Head(snap)>> \o sinMarcas(Tail(snap))

\* C6 as stated: on n zeros the scenario TM accepts and the last step's
\* tapeSnapshot is n '1' symbols, as long as the input
C6_SnapshotSoloUnos ==
    (escenarioTM /\ pcS = "done" /\ maxSteps >= Len(input) + 2) =>
        /\ found
        /\ outPath # <<>>
        /\ outPath[Len(outPath)].tapeSnapshot = Repetir("1", Len(input))

\* C6 amended: on n zeros the scenario TM accepts (for every budget that covers
\* the run's n + 2 invocations) and the last step's tapeSnapshot holds n '1'
\* symbols in order once the brackets that mark the cell under the head and the
\* blank cells expandTape added are left out; the snapshot itself is longer than
\* the input
C6_SnapshotUnosYMarcas ==
    (escenarioTM /\ pcS = "done" /\ maxSteps >= Len(input) + 2) =>
        /\ found
        /\ outPath # <<>>
        /\ sinMarcas(outPath[Len(outPath)].tapeSnapshot) = Repetir("1", Len(input))
        /\ Len(outPath[Len(outPath)].tapeSnapshot) > Len(input)

\* the scenario TM has accepted the longest all-zero input
C6_Witness ==
    escenarioTM /\ pcS = "done" /\ found /\ Len(input) = MaxInput

\* the three states of a search
Accepted == ret = "true"
Exhausted == ret # "true" /\ (stepsRemaining <= 0 \/ frames = <<>>)
Searching == ~Accepted /\ ~Exhausted

\* frames' is frames with innermost invocations gone and nothing else changed
SoloRetornos ==
    /\ Len(frames') <= Len(frames)
    /\ frames' = SubSeq(frames, 1, Len(frames'))

\* C10: Accepted and Exhausted are terminal. Once an invocation has accepted, the
\* open invocations only return: no prologue runs, no transition is tried, the
\* path is untouched. Once the budget is used up or the outermost invocation has
\* returned false, no invocation accepts any more. The call returns true exactly
\* from Accepted and false from Exhausted
C10_Terminales ==
    [][ /\ Accepted =>
              /\ Accepted'
              /\ SoloRetornos
              /\ pathSoFar' = pathSoFar /\ resultPath' = resultPath
              /\ stepsRemaining' = stepsRemaining
        /\ Exhausted => Exhausted'
        /\ pcS' = "done" => ((found' <=> Accepted') /\ (~found' <=> Exhausted'))
      ]_vars

\* a call that returned false after the budget ran out with invocations still
\* open: further transitions were tried past the exhaustion and none accepted
C10_Witness ==
    pcS = "done" /\ ~found /\ stepsRemaining < -1 /\ maxSteps >= 2

----------------------------------------------------------------------------
(* Budget, backtracking and frame effects of the depth-first search *)

\* the prologue of the innermost invocation is about to run
EnPrologo == pcS = "run" /\ frames # <<>> /\ Top.pc = "entry"

\* C11: within one accepts call at most maxSteps invocations get past the budget
\* test (none when maxSteps is not positive); an invocation entered when the counter is spent returns false without
\* examining its configuration (no acceptance, no transition fired, the paths
\* untouched); and a search that was cut by the budget ends like a rejection:
\* accepts returns false and the caller's path is as it was
C11_PresupuestoAgotado ==
    /\ [](examinadas <= IF maxSteps > 0 THEN maxSteps ELSE 0)
    /\ [](pcS = "done" /\ stepsRemaining < 0 => ~found /\ outPath = PathPrevio)
    /\ [][EnPrologo /\ stepsRemaining <= 0 =>
            /\ ret' = "false" /\ frames' = PopFrame
            /\ examinadas' = examinadas
            /\ pathSoFar' = pathSoFar /\ resultPath' = resultPath]_vars

C11_Witness ==
    pcS = "done" /\ ~found /\ stepsRemaining < 0 /\ examinadas = maxSteps /\ maxSteps >= 3

\* C12: when an invocation has returned false pathSoFar is what it was when that
\* invocation was entered, and while an invocation runs its prologue or its loop
\* pathSoFar has as many steps as there are invocations open below it
C12_RetrocesoRestaura ==
    /\ ret = "false" => pathSoFar = devuelta
    /\ pcS = "run" /\ frames # <<>> /\ Top.pc = "entry" =>
          /\ Len(pathSoFar) = Len(frames) - 1
          /\ pathSoFar = entradas[Len(frames)]
    /\ pcS = "run" /\ frames # <<>> /\ Top.pc = "loop" =>
          Len(pathSoFar) = Len(frames) - 1

\* an invocation two levels deep has failed after the one below it failed too
C12_Witness ==
    /\ pcS = "run" /\ ret = "false" /\ Len(devuelta) = 1 /\ stepsRemaining >= 1
    /\ examinadas >= 3

\* C13: no step of an accepts call changes the machine or the input, and when
\* accepts returns false the caller's path vector is what it was before the call
C13_SinOtrosEfectos ==
    /\ [][maquina' = maquina /\ input' = input]_vars
    /\ [](pcS = "done" /\ ~found => outPath = PathPrevio)

C13_Witness ==
    pcS = "done" /\ ~found /\ outPath = PathPrevio /\ examinadas >= 2 /\ stepsRemaining >= 0

----------------------------------------------------------------------------
(* The tape of the TM and the stack of the PDA along the branch explored *)

\* the transition the open invocation j fired to call invocation j + 1
disparada(j) == maquina.transitions[frames[j].i]

\* C14: every configuration TM::simulate is entered with has its head on a cell
\* of the tape; a LEFT move from cell 0 prepends exactly one blank, increments
\* the offset and puts the head on 0; a RIGHT move from the last cell appends
\* exactly one blank; any other move leaves the length and the offset alone
C14_CabezalEnCinta ==
    esTM =>
      /\ \A j \in 1..Len(frames) :
            /\ frames[j].current.headPosition >= 0
            /\ frames[j].current.headPosition < Len(frames[j].current.tape)
      /\ \A j \in 1..(Len(frames) - 1) :
            LET c == frames[j].current
                n == frames[j + 1].current
                t == disparada(j)
                largo == Len(c.tape)
            IN  IF t.moveDirection = "LEFT" /\ c.headPosition = 0
                THEN /\ Len(n.tape) = largo + 1
                     /\ n.tape[1] = maquina.blankSymbol
                     /\ \A k \in 2..largo : n.tape[k + 1] = c.tape[k]
                     /\ n.tapeOffset = c.tapeOffset + 1
                     /\ n.headPosition = 0
                ELSE IF t.moveDirection = "RIGHT" /\ c.headPosition = largo - 1
                THEN /\ Len(n.tape) = largo + 1
                     /\ n.tape[largo + 1] = maquina.blankSymbol
                     /\ \A k \in 1..(largo - 1) : n.tape[k] = c.tape[k]
                     /\ n.tapeOffset = c.tapeOffset
                     /\ n.headPosition = largo
                ELSE /\ Len(n.tape) = largo
                     /\ n.tapeOffset = c.tapeOffset
                     /\ n.headPosition =
                            c.headPosition +
                            (IF t.moveDirection = "LEFT" THEN -1
                             ELSE IF t.moveDirection = "RIGHT" THEN 1 ELSE 0)

\* on the empty input the head moved LEFT off the tape twice
C14_Witness ==
    /\ esTM /\ input = <<>> /\ Len(frames) = 3
    /\ frames[3].current.tapeOffset = 2
    /\ frames[3].current.headPosition = 0
    /\ Len(frames[3].current.tape) = 3

----------------------------------------------------------------------------
(* The Transition object against the history of its calls *)

\* the calls made after the last clear
desdeUltimoClear(h) ==
    LET limpiezas == {i \in 1..Len(h) : h[i].op = "clear"}
        ultimo == IF limpiezas = {} THEN 0
                  ELSE CHOOSE i \in limpiezas : \A k \in limpiezas : k <= i
    IN  SubSeq(h, ultimo + 1, Len(h))

\* the destinations of the addTransition(from, symbol, .) calls in h, in call order
RECURSIVE destinosLlamados(_, _, _)
destinosLlamados(h, from, symbol) ==
    IF h = <<>> THEN <<>>
    ELSE (IF Head(h).op = "add" /\ Head(h).from = from /\ Head(h).symbol = symbol
          THEN <<Head(h).to>> ELSE <<>>)
         \o destinosLlamados(Tail(h), from, symbol)

C17_ConsultaPura ==
    consulta.op = "get" =>
      /\ delta = consulta.antes
      /\ DOMAIN delta = DOMAIN consulta.antes
      /\ \A from \in Estados, symbol \in Simbolos :
            getNextStates(delta, from, symbol) =
               getNextStates(consulta.antes, from, symbol)
      /\ destinosLlamados(historial, consulta.from, consulta.symbol) = <<>> =>
            /\ consulta.devuelto = <<>>
            /\ <<consulta.from, consulta.symbol>> \notin DOMAIN delta

\* the table of the test: (q0, a) added, (q0, b) looked up
C17_Witness ==
    /\ consulta.op = "get" /\ consulta.from = "q0" /\ consulta.symbol = "b"
    /\ consulta.devuelto = <<>>
    /\ historial = <<LlamadaAdd("q0", "a", "q1")>>
    /\ DOMAIN delta = {<<"q0", "a">>}

----------------------------------------------------------------------------
(* esAceptada against deterministic replay, call order and repeated calls *)

\* every key of the table has at most one destination
esDFA(d) == \A k \in DOMAIN d : Len(d[k]) <= 1

\* single-path replay: the state after w from q, or "ninguno" once a transition
\* is missing
RECURSIVE replay(_, _, _)
replay(d, q, w) ==
    IF w = <<>> THEN q
    ELSE LET siguientes == getNextStates(d, q, Head(w))
         IN  IF siguientes = <<>> THEN "ninguno"
             ELSE replay(d, siguientes[1], Tail(w))

\* C18: on a table with at most one destination per key, esAceptada returns true
\* exactly when single-path replay from the initial state finds a transition
\* for every symbol and ends in a final state
C18_ReplayDeterminista ==
    pcFA = "hecho" /\ esDFA(delta) =>
       aceptada = (replay(delta, estadoInicial, cadena) \in finales)

\* a two-symbol string accepted over two different transitions
C18_Witness ==
    /\ pcFA = "hecho" /\ esDFA(delta) /\ aceptada /\ Len(cadena) = 2
    /\ Cardinality(DOMAIN delta) = 2
    /\ replay(delta, estadoInicial, cadena) # estadoInicial

\* a list of addTransition calls that builds the table d, key after key
RECURSIVE llamadasDe(_, _)
llamadasDe(d, K) ==
    IF K = {} THEN <<>>
    ELSE LET k == CHOOSE x \in K : TRUE
         IN  [i \in 1..Len(d[k]) |-> LlamadaAdd(k[1], k[2], d[k][i])]
             \o llamadasDe(d, K \ {k})

\* the table the calls of L build, made in that order
RECURSIVE construir(_)
construir(L) ==
    IF L = <<>> THEN TablaVacia
    ELSE LET c == L[Len(L)]
         IN  addTransition(construir(SubSeq(L, 1, Len(L) - 1)), c.from, c.symbol, c.to)

\* the tables the calls of L build, made in every order
Reordenadas(L) ==
    {construir([i \in 1..Len(L) |-> L[p[i]]]) : p \in Permutations(1..Len(L))}

\* C19: the set validarCadena returned is the set it returns on every table
\* built from the same addTransition calls made in another order
C19_OrdenIndiferente ==
    pcFA = "vuelto" =>
       /\ construir(llamadasDe(delta, DOMAIN delta)) = delta
       /\ \A d2 \in Reordenadas(llamadasDe(delta, DOMAIN delta)) :
             validarCadena(d2, estadoInicial, cadena) = estadosAlcanzados

\* two destinations under one key, both reached
C19_Witness ==
    /\ pcFA = "vuelto" /\ cadena # <<>>
    /\ \E k \in DOMAIN delta : Len(delta[k]) = 2 /\ delta[k][1] # delta[k][2]
    /\ Cardinality(estadosAlcanzados) = 2
    /\ Cardinality(Reordenadas(llamadasDe(delta, DOMAIN delta))) = 2

\* C20: every esAceptada call that has returned gave the result the first call
\* gave, and left the table what it was when the call was entered
C20_Idempotente ==
    \A i \in 1..Len(resultados) :
       resultados[i].vuelta =>
          /\ resultados[i].resultado = resultados[1].resultado
          /\ resultados[i].despues = resultados[i].antes
          /\ resultados[i].antes = resultados[1].antes

\* a second call has returned true on a string of two symbols
C20_Witness ==
    /\ pcFA = "hecho" /\ Len(resultados) = 2 /\ resultados[2].vuelta
    /\ aceptada /\ Len(cadena) = 2 /\ delta # TablaVacia

----------------------------------------------------------------------------
(* Boundary cases and termination of validarCadena *)

\* C21: on the empty string validarCadena returns exactly the set holding the
\* initial state, whatever the table holds, and esAceptada returns true exactly
\* when the initial state is final
C21_CadenaVacia ==
    cadena = <<>> =>
       /\ pcFA \in {"vuelto", "hecho"} => estadosAlcanzados = {estadoInicial}
       /\ pcFA = "hecho" => aceptada = (estadoInicial \in finales)

\* the empty string accepted on a table that has a transition out of the
\* initial state
C21_Witness ==
    /\ pcFA = "hecho" /\ cadena = <<>> /\ aceptada
    /\ \E k \in DOMAIN delta : k[1] = estadoInicial

\* the states reached after the first p symbols of the input
alcanzadosTras(p) == Alcanzables(delta, {estadoInicial}, SubSeq(cadena, 1, p))

\* at position p no reached state has a destination stored for the symbol
sinTransicionEn(p) ==
    \A q \in alcanzadosTras(p) :
       <<q, cadena[p + 1]>> \in DOMAIN delta => delta[<<q, cadena[p + 1]>>] = <<>>

\* C27: when at some position of the input no reached state has a transition
\* on the symbol there, validarCadena returns the empty set and esAceptada
\* returns false
C27_SimboloSinTransicion ==
    (\E p \in 0..(Len(cadena) - 1) : sinTransicionEn(p)) =>
       /\ pcFA \in {"vuelto", "hecho"} => estadosAlcanzados = {}
       /\ pcFA = "hecho" => ~aceptada

\* the second symbol of the input is one the table has no transition on at all,
\* after a first symbol that was followed
C27_Witness ==
    /\ pcFA = "hecho" /\ Len(cadena) = 2 /\ ~aceptada
    /\ ~sinTransicionEn(0) /\ sinTransicionEn(1)
    /\ \A k \in DOMAIN delta : k[2] # cadena[2]
    /\ finales = Estados

\* the states of the automaton: the initial one and those the table names
estadosDe(d, q0) ==
    {q0} \cup {k[1] : k \in DOMAIN d} \cup UNION {Rango(d[k]) : k \in DOMAIN d}

\* C24: no (state, position) configuration is pushed on the queue twice; every
\* configuration pushed in the loop has the position of the one being expanded
\* plus one; at most |states| * (|input| + 1) configurations are pushed, hence
\* dequeued; and the loop ends: validarCadena returns
C24_SinReencolar ==
    /\ [](\A i, j \in 1..Len(encoladas) :
             encoladas[i].config = encoladas[j].config => i = j)
    /\ [](\A i \in 1..Len(encoladas) :
             encoladas[i].config.posicion = encoladas[i].desde.posicion + 1)
    /\ [](\A i \in 2..Len(encoladas) :
             \E j \in 1..(i - 1) : encoladas[j].config = encoladas[i].desde)
    /\ [](Len(encoladas) <=
             Cardinality(estadosDe(delta, estadoInicial)) * (Len(cadena) + 1))
    /\ (pcFA = "bfs") ~> (pcFA = "vuelto")

\* two branches of the NFA reconverged on one configuration, which was pushed
\* once
C24_Witness ==
    /\ pcFA = "vuelto" /\ Len(cadena) = 2
    /\ \E k \in DOMAIN delta : Len(delta[k]) = 2 /\ delta[k][1] = delta[k][2]
    /\ Len(encoladas) = 3

----------------------------------------------------------------------------
(* The generators: the empty string, the cycle limit, termination *)

\* how many entries of the list s equal x
RECURSIVE veces(_, _)
veces(s, x) ==
    IF s = <<>> THEN 0
    ELSE (IF Head(s) = x THEN 1 ELSE 0) + veces(Tail(s), x)

\* C22: at every point of either generator, and so in what it returns, the
\* empty string is in the output once when the initial state is final and not
\* at all otherwise
C22_VaciaSiInicialFinal ==
    pcGen \in {"bucle", "hecho"} =>
       veces(cadenasAceptadas, <<>>) = (IF estadoInicial \in finales THEN 1 ELSE 0)

\* the cycle-limited generator returned the empty string and other strings
C22_Witness ==
    /\ pcGen = "hecho" /\ variante = "limite" /\ estadoInicial \in finales
    /\ Len(cadenasAceptadas) >= 3 /\ veces(cadenasAceptadas, <<>>) = 1
    /\ \E k \in DOMAIN delta : estadoInicial \in Rango(delta[k])

\* a is b with some entries left out, the order kept
RECURSIVE esSublista(_, _)
esSublista(a, b) ==
    IF a = <<>> THEN TRUE
    ELSE IF b = <<>> THEN FALSE
    ELSE IF Head(a) = Head(b) THEN esSublista(Tail(a), Tail(b))
    ELSE esSublista(a, Tail(b))

\* C23: what generarCadenasConLimite returns for limit k is a sub-list of what
\* it returns for limit k + 1 on the same automaton, alphabet and maxLength (so
\* it has no more entries, and limit 1 is contained in limit 2)
C23_MonotonoEnLimite ==
    pcGen = "hecho" /\ variante = "limite" =>
       LET mas == generarCadenasConLimite(delta, estadoInicial, finales, alfabeto,
                                          longitudMaxima, limiteCiclos + 1)
       IN  /\ esSublista(cadenasAceptadas, mas)
           /\ Len(cadenasAceptadas) <= Len(mas)

\* limit 1 returned strictly less than limit 2 returns
C23_Witness ==
    /\ pcGen = "hecho" /\ variante = "limite" /\ limiteCiclos = 1
    /\ cadenasAceptadas # <<>>
    /\ Len(cadenasAceptadas) <
          Len(generarCadenasConLimite(delta, estadoInicial, finales, alfabeto,
                                      longitudMaxima, 2))

\* C25: for every maxLength >= 0 no string in the output of either generator is
\* longer than maxLength, and the generator's loop ends: the call returns
C25_GeneradoresTerminan ==
    /\ [](\A i \in 1..Len(cadenasAceptadas) :
             Len(cadenasAceptadas[i]) <= longitudMaxima)
    /\ (pcGen = "bucle") ~> (pcGen = "hecho")

\* a generator returned on an automaton with a cycle through the initial state,
\* with a string of the full length in its output
C25_Witness ==
    /\ pcGen = "hecho" /\ variante = "todas" /\ longitudMaxima = MaxLongitud
    /\ <<estadoInicial, "a">> \in DOMAIN delta
    /\ estadoInicial \in Rango(delta[<<estadoInicial, "a">>])
    /\ \E i \in 1..Len(cadenasAceptadas) : Len(cadenasAceptadas[i]) = longitudMaxima

----------------------------------------------------------------------------
(* The table under a stepwise validation run of the editor *)

\* C28: from onPlayValidation to the run's verdict the table the steps read is
\* the one onPlayValidation left: no handler has inserted or removed a
\* transition
C28_TablaEstable ==
    corrida = "en curso" => transitionHandler = tablaAlPlay

----------------------------------------------------------------------------
(* Reading a step out of a path *)

\* C26: getStepFromPath(path, i), of the PDA and of the TM, returns the step
\* at position i when i < length(path) and the empty optional for every
\* i >= length(path), any i on an empty path included; the path is left as
\* it was
C26_PasoOAusencia ==
    pasoPedido.op = "get" =>
        /\ outPath = pasoPedido.path
        /\ pasoPedido.i < Len(pasoPedido.path) =>
              /\ pasoPedido.devuelto.has_value
              /\ pasoPedido.devuelto.value = pasoPedido.path[pasoPedido.i + 1]
        /\ pasoPedido.i >= Len(pasoPedido.path) =>
              ~pasoPedido.devuelto.has_value

\* the last step of a two-step path of a TM was asked for
C26_Witness ==
    /\ esTM /\ found /\ pasoPedido.op = "get"
    /\ Len(pasoPedido.path) = 2 /\ pasoPedido.i = 1
    /\ pasoPedido.devuelto = optional(outPath[2])

\* an index was asked of the empty path of a PDA accepted at once
C26_WitnessVacia ==
    /\ esPDA /\ found /\ pasoPedido.op = "get"
    /\ pasoPedido.path = <<>> /\ pasoPedido.i = 0
    /\ pasoPedido.devuelto = nullopt

----------------------------------------------------------------------------
(* Acceptance of the Turing machine *)

\* C30: TM::accepts accepts when the state a transition enters is final. When
\* it returns true with a non-empty path the steps chain from the initial
\* state, the toState of the last step is final and no state before it, the
\* initial state included, is final; the path is empty exactly when the
\* initial state is final; and an invocation entered in a final state with
\* budget left returns true wherever the head stands
C30_AceptaPorEstadoFinal ==
    /\ [](esTM /\ pcS = "done" /\ found =>
            /\ (outPath = <<>>) = (maquina.initialState \in maquina.finalStates)
            /\ outPath # <<>> =>
                  /\ outPath[1].fromState = maquina.initialState
                  /\ outPath[Len(outPath)].toState \in maquina.finalStates
                  /\ \A j \in DOMAIN outPath :
                        /\ outPath[j].fromState \notin maquina.finalStates
                        /\ j > 1 => outPath[j].fromState = outPath[j - 1].toState)
    /\ [][esTM /\ pcS = "run" /\ frames # <<>> /\ Top.pc = "entry"
          /\ stepsRemaining > 0 /\ Top.current.state \in maquina.finalStates
          => ret' = "true" /\ resultPath' = pathSoFar]_vars

\* accepted on the blank cell left of an input of two symbols, none of which
\* was passed over or rewritten
C30_Witness ==
    /\ esTM /\ pcS = "done" /\ found /\ input = <<"0", "0">>
    /\ Len(outPath) = 2
    /\ outPath[1].moveDirection = "LEFT" /\ outPath[1].writeSymbol = "0"
    /\ outPath[2].readSymbol = "_"
    /\ outPath[2].toState \in maquina.finalStates


----------------------------------------------------------------------------
(* The step budget and short accepting runs *)

\* the configuration accepts starts the search from
StartDe ==
    IF maquina.kind = "PDA" THEN PDA_Start(maquina) ELSE TM_Start(maquina, input)

\* some run of at most k transition firings from c ends in an accepting
\* configuration
RECURSIVE ExisteCorrida(_, _)
ExisteCorrida(c, k) ==
    \/ Acepta(c)
    \/ /\ k > 0
       /\ \E j \in DOMAIN maquina.transitions :
             /\ Aplicable(maquina.transitions[j], c)
             /\ ExisteCorrida(NextDe(maquina.transitions[j], c), k - 1)

\* C29: if some accepting run of k transition firings exists and
\* maxSteps >= k + 1, accepts returns true: steps spent on failed sibling
\* branches do not make the search miss a short accepting run
C29_PresupuestoCompleto ==
    (pcS = "done" /\ maxSteps >= 1 /\ ExisteCorrida(StartDe, maxSteps - 1)) => found


----------------------------------------------------------------------------
(* Which transitions TM::simulate fires, and what they write *)

\* the symbol a configuration has under its head, blank outside the vector
simboloBajoCabezal(c) ==
    IF c.headPosition >= 0 /\ c.headPosition < Len(c.tape)
    THEN c.tape[c.headPosition + 1]
    ELSE maquina.blankSymbol

\* the transition leaves the configuration's state and reads its symbol, the
\* sentinel NUL standing for the blank symbol
coincide(t, c) ==
    /\ t.fromState = c.state
    /\ \/ t.readSymbol = simboloBajoCabezal(c)
       \/ t.readSymbol = NUL /\ simboloBajoCabezal(c) = maquina.blankSymbol

\* C31: in TM::simulate a transition is applicable exactly when its fromState
\* is the current state and its readSymbol is the symbol under the head, the
\* sentinel NUL matching the blank symbol and a head outside the vector reading
\* blank: the loop fires the first such transition at or after its index,
\* skips the others, and returns false when there is none; a writeSymbol of
\* NUL stores the blank symbol in the cell, any other is stored as it is
C31_AplicableYEscritura ==
    /\ [](esTM =>
            \A j \in 1..Len(frames) :
               \A h \in -1..Len(frames[j].current.tape) :
                  currentSymbol(maquina, [frames[j].current EXCEPT !.headPosition = h])
                    = simboloBajoCabezal([frames[j].current EXCEPT !.headPosition = h]))
    /\ [][(esTM /\ pcS = "run" /\ frames # <<>> /\ Top.pc = "loop") =>
            LET c == Top.current
                desde == Top.i
            IN  IF Len(frames') > Len(frames)
                THEN LET j == frames'[Len(frames)].i
                         t == maquina.transitions[j]
                         n == frames'[Len(frames')].current
                     IN  /\ coincide(t, c)
                         /\ \A k \in desde..(j - 1) :
                               ~coincide(maquina.transitions[k], c)
                         /\ n.tape[c.headPosition + 1 + (n.tapeOffset - c.tapeOffset)]
                              = IF t.writeSymbol = NUL THEN maquina.blankSymbol
                                ELSE t.writeSymbol
                         /\ pathSoFar'[Len(pathSoFar')].readSymbol
                              = simboloBajoCabezal(c)
                ELSE \A k \in desde..Len(maquina.transitions) :
                        ~coincide(maquina.transitions[k], c)]_vars

\* after a step over the input's one symbol, a transition reading NUL and
\* writing NUL was fired on the blank cell the head had moved onto
C31_Witness ==
    /\ esTM /\ pcS = "run" /\ Len(frames) = 3 /\ input = <<"0">>
    /\ disparada(2).readSymbol = NUL /\ disparada(2).writeSymbol = NUL
    /\ pathSoFar[2].readSymbol = "_"
    /\ frames[3].current.tape = <<"1", "_">>


----------------------------------------------------------------------------
(* Replaying the path of a Turing machine *)

\* the tape and head a recorded step leads to from the tape and head before it
trasPaso(step, tape, head) ==
    LET escrita == [tape EXCEPT ![head + 1] =
                       IF step.writeSymbol = NUL THEN maquina.blankSymbol
                       ELSE step.writeSymbol]
        movido == IF step.moveDirection = "LEFT" THEN head - 1
                  ELSE IF step.moveDirection = "RIGHT" THEN head + 1
                  ELSE head
    IN  IF movido < 0
        THEN [tape |-> <<maquina.blankSymbol>> \o escrita, head |-> 0]
        ELSE IF movido >= Len(escrita)
        THEN [tape |-> Append(escrita, maquina.blankSymbol), head |-> movido]
        ELSE [tape |-> escrita, head |-> movido]

\* the snapshot with the brackets taken out
sinCorchetes(snapshot) == SelectSeq(snapshot, LAMBDA x : x \notin {"[", "]"})

\* the steps of path from index j on replay from the given state, tape and head
RECURSIVE seReproduce(_, _, _, _, _)
seReproduce(path, j, state, tape, head) ==
    IF j > Len(path) THEN TRUE
    ELSE LET step == path[j]
             tras == trasPaso(step, tape, head)
         IN  /\ step.fromState = state
             /\ head >= 0 /\ head < Len(tape)
             /\ step.readSymbol = tape[head + 1]
             /\ Len(tras.tape) <= Len(tape) + 1
             /\ step.headPosition = tras.head
             /\ sinCorchetes(step.tapeSnapshot) = tras.tape
             /\ Len(step.tapeSnapshot) = Len(tras.tape) + 2
             /\ step.tapeSnapshot[tras.head + 1] = "["
             /\ step.tapeSnapshot[tras.head + 3] = "]"
             /\ seReproduce(path, j + 1, step.toState, tras.tape, tras.head)

\* C32: the path TM::accepts returns replays step by step from the input tape
\* (one blank cell for the empty input) with the head at 0: each step's
\* fromState is the state reached so far, its readSymbol the symbol under the
\* head, and its tapeSnapshot and headPosition the tape and head after writing
\* writeSymbol (blank for NUL), moving as moveDirection says and growing the
\* tape by at most one blank cell, headPosition being the index of the
\* bracketed cell of the snapshot
C32_PathSeReproduce ==
    (esTM /\ pcS = "done" /\ found) =>
        seReproduce(outPath, 1, maquina.initialState,
                    IF input = <<>> THEN <<maquina.blankSymbol>> ELSE input, 0)

\* a path of two steps, each moving left off the tape, so that the recorded
\* head positions are indices of the grown vector
C32_Witness ==
    /\ esTM /\ pcS = "done" /\ found /\ input = <<"0">> /\ Len(outPath) = 2
    /\ outPath[1].moveDirection = "LEFT" /\ outPath[1].headPosition = 0
    /\ outPath[2].moveDirection = "LEFT" /\ outPath[2].headPosition = 0
    /\ outPath[2].tapeSnapshot = <<"[", "_", "]", "_", "0">>


----------------------------------------------------------------------------
(* The offset of the tape and the configurations of the open invocations *)

\* the firings of the open invocations before invocation k that moved left
\* from cell 0
prependidas(k) ==
    Cardinality({j \in 1..(k - 1) :
                    /\ disparada(j).moveDirection = "LEFT"
                    /\ frames[j].current.headPosition = 0})

\* the tape and head reached by replaying the first k steps of path
RECURSIVE cintaTras(_, _)
cintaTras(path, k) ==
    IF k = 0
    THEN [tape |-> IF input = <<>> THEN <<maquina.blankSymbol>> ELSE input,
          head |-> 0]
    ELSE LET antes == cintaTras(path, k - 1)
         IN  trasPaso(path[k], antes.tape, antes.head)

\* C33: in every TM configuration of the search tapeOffset is the number of
\* cells prepended on the branch leading to it; a firing leaves every cell but
\* the one written at its logical coordinate (physical index minus
\* tapeOffset) with its symbol; and a configuration of an open invocation
\* never changes while branches below it are tried and fail: it stays the
\* one its own branch of pathSoFar leads to
C33_OffsetYRestauracion ==
    /\ [](esTM =>
            /\ \A k \in 1..Len(frames) :
                  /\ frames[k].current.tapeOffset = prependidas(k)
                  /\ Len(pathSoFar) >= k - 1
                  /\ frames[k].current.tape = cintaTras(pathSoFar, k - 1).tape
                  /\ frames[k].current.headPosition = cintaTras(pathSoFar, k - 1).head
            /\ \A k \in 1..(Len(frames) - 1) :
                  LET c == frames[k].current
                      n == frames[k + 1].current
                  IN  \A p \in 0..(Len(c.tape) - 1) :
                         p # c.headPosition =>
                            n.tape[(p - c.tapeOffset) + n.tapeOffset + 1] = c.tape[p + 1])
    /\ [][esTM /\ pcS = "run" =>
            /\ \A k \in 1..Len(frames) :
                  k <= Len(frames') => frames'[k].current = frames[k].current
            /\ (frames # <<>> /\ Top.pc = "called" /\ ret = "false") =>
                  /\ Len(frames') = Len(frames)
                  /\ frames'[Len(frames)].current = Top.current
                  /\ frames'[Len(frames)].pc = "loop"]_vars

\* an invocation entered after a prepend is back in its loop after the
\* branch of its first transition failed, its tape and offset as at its entry
C33_Witness ==
    /\ esTM /\ pcS = "run" /\ Len(frames) = 2
    /\ frames[2].current.tapeOffset = 1 /\ frames[2].pc = "loop" /\ frames[2].i = 2
    /\ Len(frames[2].current.tape) = Len(input) + 1 /\ input # <<>>


----------------------------------------------------------------------------
(* The order of the search *)

\* depth-first search in the order of the transition list, as a function of
\* the configuration, the path to it and the budget left: whether an accepting
\* configuration was found, the path to it, and the budget left afterwards
RECURSIVE buscar(_, _, _), probarDesde(_, _, _, _)
buscar(c, path, b) ==
    IF b <= 0 THEN [ok |-> FALSE, path |-> <<>>, b |-> b - 1]
    ELSE IF Acepta(c) THEN [ok |-> TRUE, path |-> path, b |-> b - 1]
    ELSE probarDesde(c, path, b - 1, 1)

probarDesde(c, path, b, i) ==
    IF i > Len(maquina.transitions) THEN [ok |-> FALSE, path |-> <<>>, b |-> b]
    ELSE IF ~Aplicable(maquina.transitions[i], c) THEN probarDesde(c, path, b, i + 1)
    ELSE LET t == maquina.transitions[i]
             r == buscar(NextDe(t, c), Append(path, StepDe(t, c)), b)
         IN  IF r.ok THEN r ELSE probarDesde(c, path, r.b, i + 1)

\* C34: candidate transitions are tried in the order of the transition list,
\* depth first, so accepts reports the first accepting run of that order
\* among those reached before the budget runs out; verdict and path are a
\* function of the machine, the input and maxSteps, so that two calls on the
\* same three report the same verdict and the same path
C34_PrimeraEnOrden ==
    pcS = "done" =>
        LET r == buscar(StartDe, <<>>, maxSteps)
        IN  /\ found = r.ok
            /\ found => outPath = r.path
            /\ stepsRemaining = r.b

\* two transitions fire from the start configuration and each leads to an
\* accepting one: the path reported is the run of the one added first
C34_Witness ==
    /\ pcS = "done" /\ found /\ Len(outPath) = 1
    /\ Len(maquina.transitions) = 2
    /\ Aplicable(maquina.transitions[1], StartDe)
    /\ Aplicable(maquina.transitions[2], StartDe)
    /\ Acepta(NextDe(maquina.transitions[1], StartDe))
    /\ Acepta(NextDe(maquina.transitions[2], StartDe))
    /\ outPath[1] = StepDe(maquina.transitions[1], StartDe)
    /\ outPath[1] # StepDe(maquina.transitions[2], StartDe)


----------------------------------------------------------------------------
(* Termination of the search *)

\* C35: PDA::accepts and TM::accepts return for every transition list, input
\* and maxSteps, epsilon cycles that grow the stack and machines that loop
\* forever included: an invocation entered with the budget exhausted returns
\* false at once, the loop index of an open invocation never goes back and
\* moves past a transition whose branch failed, so that after the budget is
\* exhausted each open invocation tries each remaining transition at most once
C35_BusquedaTermina ==
    /\ <>(pcS = "done")
    /\ [][(pcS = "run" /\ frames # <<>> /\ Top.pc = "entry" /\ stepsRemaining <= 0)
            => frames' = PopFrame /\ ret' = "false"]_vars
    /\ [][pcS = "run" =>
            /\ \A k \in 1..Len(frames) :
                  k <= Len(frames') => frames'[k].i >= frames[k].i
            /\ (frames # <<>> /\ Top.pc = "called" /\ ret = "false") =>
                  frames'[Len(frames)].i > Top.i]_vars

\* a PDA whose epsilon transition pushes without end was stopped by the
\* budget and accepts has returned
C35_Witness ==
    /\ esPDA /\ pcS = "done" /\ ~found /\ stepsRemaining < 0 /\ maxSteps = MaxBudget
    /\ \E j \in DOMAIN maquina.transitions :
          /\ maquina.transitions[j].input = NUL
          /\ maquina.transitions[j].pop = NUL
          /\ maquina.transitions[j].push # <<>>
          /\ maquina.transitions[j].from = maquina.transitions[j].to


----------------------------------------------------------------------------
(* The budget of a deterministic run *)

\* the transitions of the list that fire from c
aplicablesEn(c) ==
    {j \in DOMAIN maquina.transitions : Aplicable(maquina.transitions[j], c)}

\* the number of firings after which the run from c first reaches an accepting
\* configuration, when exactly one transition fires from every configuration
\* before it and that number is at most n; -1 otherwise
RECURSIVE firingsHastaAceptar(_, _)
firingsHastaAceptar(c, n) ==
    IF Acepta(c) THEN 0
    ELSE IF n = 0 \/ Cardinality(aplicablesEn(c)) # 1 THEN -1
    ELSE LET j == CHOOSE x \in aplicablesEn(c) : TRUE
             resto == firingsHastaAceptar(NextDe(maquina.transitions[j], c), n - 1)
         IN  IF resto = -1 THEN -1 ELSE resto + 1

\* C36: when at most one transition fires from every configuration of the run
\* and the run first reaches an accepting configuration after exactly k
\* firings, accepts returns true if and only if maxSteps >= k + 1; with
\* maxSteps <= 0 every call returns false, even from an accepting start
C36_FronteraDelPresupuesto ==
    pcS = "done" =>
        /\ LET k == firingsHastaAceptar(StartDe, MaxBudget)
           IN  k # -1 => (found <=> maxSteps >= k + 1)
        /\ maxSteps <= 0 => ~found

\* a deterministic run accepts after two firings and the call was given
\* maxSteps = 2, one short of what it needs
C36_Witness ==
    /\ pcS = "done" /\ ~found /\ maxSteps = 2
    /\ firingsHastaAceptar(StartDe, MaxBudget) = 2

\* the start configuration accepts, and a negative budget returned false
C36_WitnessNegativo ==
    /\ pcS = "done" /\ ~found /\ maxSteps < 0 /\ Acepta(StartDe)


----------------------------------------------------------------------------
(* A negative maxLength *)

\* C39: a generator called with maxLength < 0 behaves as with maxLength = 0: it
\* expands nothing and its output is at most the empty string, present exactly
\* when the initial state is final
C39_NegativaComoCero ==
    longitudMaxima < 0 =>
        /\ cadenasAceptadas = genInicio(estadoInicial, finales)
        /\ \A i \in 1..Len(colaGen) :
              Len(IF variante = "todas" THEN colaGen[i][2] ELSE colaGen[i].cadena) = 0


----------------------------------------------------------------------------
(* The cycle limit that cannot bind *)

\* some run of at most n more transitions from q, the states visited so far
\* counted in visitas, visits a state more than k times
RECURSIVE algunaCorridaExcede(_, _, _, _)
algunaCorridaExcede(q, visitas, n, k) ==
    \/ \E e \in DOMAIN visitas : visitas[e] > k
    \/ /\ n > 0
       /\ \E i \in DOMAIN alfabeto :
             \E p \in Rango(getNextStates(delta, q, alfabeto[i])) :
                algunaCorridaExcede(p, [visitas EXCEPT ![p] = @ + 1], n - 1, k)

\* the cycle limit cannot bind: no run of at most maxLength transitions from
\* the initial state visits a state more than limiteCiclos times
limiteNoAta ==
    ~algunaCorridaExcede(estadoInicial,
                         [e \in GenEstados |-> IF e = estadoInicial THEN 1 ELSE 0],
                         longitudMaxima, limiteCiclos)

\* C37: on an automaton on which no run of length <= maxLength visits a state
\* more than cycleLimit times (every automaton when cycleLimit >= maxLength + 1,
\* every acyclic automaton when cycleLimit >= 2), generarCadenasConLimite
\* returns the list generarCadenasAceptadas returns, in the same order
C37_LimiteQueNoAta ==
    (pcGen = "hecho" /\ variante = "limite") =>
        /\ limiteCiclos >= longitudMaxima + 1 => limiteNoAta
        /\ limiteNoAta =>
              cadenasAceptadas =
                 generarCadenasAceptadas(delta, estadoInicial, finales, alfabeto,
                                         longitudMaxima)

\* a loop on the initial state is run twice under limit 3 and maxLength 2, and
\* the list returned has the strings of both rounds
C37_Witness ==
    /\ pcGen = "hecho" /\ variante = "limite" /\ limiteNoAta
    /\ longitudMaxima = 2 /\ limiteCiclos = 3
    /\ estadoInicial \in finales
    /\ <<estadoInicial, "a">> \in DOMAIN delta
    /\ estadoInicial \in Rango(delta[<<estadoInicial, "a">>])
    /\ \E i \in 1..Len(cadenasAceptadas) : cadenasAceptadas[i] = <<"a", "a">>


----------------------------------------------------------------------------
(* Soundness of the enumeration *)

\* the state and the string of the entry at the front of the generator's queue
frenteEstado == IF variante = "todas" THEN Head(colaGen)[1] ELSE Head(colaGen).estado
frenteCadena == IF variante = "todas" THEN Head(colaGen)[2] ELSE Head(colaGen).cadena

\* C38: every string in the output of either generator is made of symbols of
\* the alphabet supplied and is accepted by esAceptada on the same table,
\* initial state and final states; an iteration of the loop keeps what was
\* recorded and records a string only for a transition, from the entry it
\* expands, that lands on a final state
C38_EnumeracionCorrecta ==
    /\ [](pcGen # "off" =>
            \A i \in 1..Len(cadenasAceptadas) :
               /\ Rango(cadenasAceptadas[i]) \subseteq Rango(alfabeto)
               /\ esAceptada(delta, estadoInicial, finales, cadenasAceptadas[i]))
    /\ [][(pcGen = "bucle" /\ colaGen # <<>>) =>
            /\ Len(cadenasAceptadas') >= Len(cadenasAceptadas)
            /\ SubSeq(cadenasAceptadas', 1, Len(cadenasAceptadas)) = cadenasAceptadas
            /\ \A i \in (Len(cadenasAceptadas) + 1)..Len(cadenasAceptadas') :
                  LET w == cadenasAceptadas'[i]
                  IN  /\ w # <<>>
                      /\ SubSeq(w, 1, Len(w) - 1) = frenteCadena
                      /\ \E p \in Rango(getNextStates(delta, frenteEstado, w[Len(w)])) :
                            p \in finales]_vars

\* a generator returned a string of two symbols that ends in a final state
\* other than the initial one, which is not final
C38_Witness ==
    /\ pcGen = "hecho" /\ estadoInicial \notin finales /\ finales # {}
    /\ \E i \in 1..Len(cadenasAceptadas) : Len(cadenasAceptadas[i]) = 2
    /\ Len(alfabeto) = 2


----------------------------------------------------------------------------
(* The stepwise validation of the editor against esAceptada *)

\* a run was started and no transition label was changed since
corridaSinEdiciones ==
    corrida \in {"en curso", "veredicto"} /\ ediciones = edicionesAlPlay

C40_WitnessSinEstados ==
    /\ corridaSinEdiciones /\ corrida = "veredicto"
    /\ validationStatus = "Rejected (no possible transitions)"
    /\ validationStep < Len(validationChain) /\ tablaAlPlay # TablaVacia
====
